---------------------------- MODULE Spec2Model ----------------------------
(***************************************************************************)
(* Model of the Pingera MCP server's tool layer:                           *)
(*   - the Normalizer   BaseTools._convert_sdk_object_to_dict              *)
(*   - the envelope builders  BaseTools._success_response/_error_response  *)
(*   - the tool pipelines of PagesTools, ComponentTools, ChecksTools,      *)
(*     HeartbeatsTools and find_pages_with_latest_incidents                *)
(*                                                                         *)
(* Python values are tagged records, so that values of different Python    *)
(* types are never equal:                                                  *)
(*   [t |-> "none"]                       None                             *)
(*   [t |-> "str",  s |-> "..."]          str                              *)
(*   [t |-> "bool", b |-> TRUE]           bool                             *)
(*   [t |-> "int",  n |-> 3]              int                              *)
(*   [t |-> "datetime", date, time]       a value with .isoformat()        *)
(*   [t |-> "method", returns |-> v]      a bound method returning v       *)
(*   [t |-> "dict", d |-> f]              dict, f a function on its keys   *)
(*   [t |-> "list", l |-> <<...>>]        list                             *)
(*   [t |-> "obj", ...]                   any other object (see MkObj)     *)
(***************************************************************************)
EXTENDS Integers, Sequences, FiniteSets, TLC

----------------------------------------------------------------------------
(* Python values *)

PyNone == [t |-> "none"]

PyStr(s) == [t |-> "str", s |-> s]

PyBool(b) == [t |-> "bool", b |-> b]

PyInt(n) == [t |-> "int", n |-> n]

PyDatetime(date, time) == [t |-> "datetime", date |-> date, time |-> time]

\* datetime.isoformat()
Isoformat(v) == v.date \o "T" \o v.time

\* A bound method that returns v when called without arguments.
PyMethod(v) == [t |-> "method", returns |-> v]

\* callable(value)
Callable(v) == v.t = "method"

PyDict(d) == [t |-> "dict", d |-> d]

PyList(l) == [t |-> "list", l |-> l]

EmptyMap == [k \in {} |-> PyNone]

EmptyDict == PyDict(EmptyMap)

\* An exception in flight: cls is the exception class, msg is str(e).
Exc(cls, msg) == [t |-> "exc", cls |-> cls, msg |-> msg]

\* The outcome "the call raised e" of an operator that models a function.
Raised(e) == [t |-> "raised", e |-> e]

IsRaised(r) == "t" \in DOMAIN r /\ r.t = "raised"

(***************************************************************************)
(* An object that is neither None, a dict nor a list.                      *)
(*   ty     the qualified name of its class                                *)
(*   td     its to_dict member: [m |-> "absent"],                          *)
(*          [m |-> "returns", v |-> value], [m |-> "raises"] (the call     *)
(*          raises), [m |-> "probe_raises"] (reading the attribute raises  *)
(*          an exception that is not AttributeError)                       *)
(*   am     its attribute_map class attribute: [m |-> "absent"],           *)
(*          [m |-> "pairs", p |-> <<<<python_name, api_name>>, ...>>],     *)
(*          [m |-> "other", v |-> value] (not a mapping),                  *)
(*          [m |-> "probe_raises"]                                         *)
(*   inst   its __dict__: [m |-> "absent"] (no __dict__),                  *)
(*          [m |-> "items", p |-> <<<<key, value>>, ...>>] in insertion    *)
(*          order, [m |-> "probe_raises"]                                  *)
(*   cls    data attributes found on the class (class attributes,          *)
(*          properties, slots): a function name -> value; dir() lists them *)
(*   dyn    attributes served by __getattr__ only: getattr finds them,     *)
(*          dir() and __dict__ do not                                      *)
(*   dirx   TRUE when dir(obj) raises                                      *)
(***************************************************************************)
Absent == [m |-> "absent"]

ProbeRaises == [m |-> "probe_raises"]

MkObj(ty, td, am, inst, cls, dyn, dirx) ==
    [t |-> "obj", ty |-> ty, td |-> td, am |-> am, inst |-> inst,
     cls |-> cls, dyn |-> dyn, dirx |-> dirx]


----------------------------------------------------------------------------
(* Attribute access on model values *)

\* The keys of a sequence of <<key, value>> pairs.
PairKeys(p) == {p[i][1] : i \in 1..Len(p)}

\* The value paired with key k (the last pair wins, as in a dict literal).
PairGet(p, k) ==
    LET i == CHOOSE j \in 1..Len(p) :
                 p[j][1] = k /\ \A h \in (j+1)..Len(p) : p[h][1] # k
    IN  p[i][2]

\* obj.__dict__.items() in insertion order; empty when there is no __dict__.
InstItems(o) == IF o.inst.m = "items" THEN o.inst.p ELSE <<>>

\* hasattr(value, '__dict__'): true of objects that carry an instance
\* dictionary, false of None, str, int, bool, dict, list and datetime.
HasInstDict(v) == v.t = "obj" /\ v.inst.m = "items"

\* hasattr(value, 'isoformat')
HasIsoformat(v) == v.t = "datetime"

\* The value of the class attribute attribute_map, when there is one.
AttributeMapValue(o) ==
    IF o.am.m = "pairs"
    THEN PyDict([k \in PairKeys(o.am.p) |-> PyStr(PairGet(o.am.p, k))])
    ELSE o.am.v

\* hasattr(obj, name) for a data attribute name.
HasAttr(o, name) ==
    \/ name \in PairKeys(InstItems(o))
    \/ name \in DOMAIN o.cls
    \/ name \in DOMAIN o.dyn
    \/ name = "attribute_map" /\ o.am.m \in {"pairs", "other"}

\* getattr(obj, name): the instance dictionary first, then the class, then
\* __getattr__.
GetAttr(o, name) ==
    IF name \in PairKeys(InstItems(o)) THEN PairGet(InstItems(o), name)
    ELSE IF name \in DOMAIN o.cls THEN o.cls[name]
    ELSE IF name \in DOMAIN o.dyn THEN o.dyn[name]
    ELSE AttributeMapValue(o)

\* Names beginning with an underscore, among the names the model uses
\* (attr.startswith('_')).
PrivateNames == {"_internal_cache", "_raw_object_type", "_extraction_failed"}

StartsWithUnderscore(name) == name \in PrivateNames

\* all_attrs of line 117: the names of dir(obj) that are public and not
\* callable. dir() lists instance attributes, class-level members and
\* attribute_map; names served by __getattr__ only are not listed.
PublicDirNames(o) ==
    {n \in PairKeys(InstItems(o)) \cup DOMAIN o.cls
           \cup (IF o.am.m \in {"pairs", "other"} THEN {"attribute_map"} ELSE {}) :
        ~StartsWithUnderscore(n) /\ ~Callable(GetAttr(o, n))}

\* The data members Python gives the built-in types the model passes around.
\* int and bool expose four numeric properties; list and str expose only
\* methods.
BuiltinAsObject(v) ==
    IF v.t \in {"int", "bool"}
    THEN LET n == IF v.t = "int" THEN v.n ELSE IF v.b THEN 1 ELSE 0
         IN  MkObj(v.t, Absent, Absent, Absent,
                   [k \in {"denominator", "imag", "numerator", "real"} |->
                       IF k = "denominator" THEN PyInt(1)
                       ELSE IF k = "imag" THEN PyInt(0) ELSE PyInt(n)],
                   EmptyMap, FALSE)
    ELSE MkObj(v.t, Absent, Absent, Absent, EmptyMap, EmptyMap, FALSE)

\* str(type(obj))
StrOfType(ty) == "<class '" \o ty \o "'>"

\* dict.update / result[key] = value
Update(res, d) ==
    [k \in DOMAIN res \cup DOMAIN d |-> IF k \in DOMAIN d THEN d[k] ELSE res[k]]

Put(res, k, v) == [j \in DOMAIN res \cup {k} |-> IF j = k THEN v ELSE res[j]]

----------------------------------------------------------------------------
(* The Normalizer: BaseTools._convert_sdk_object_to_dict *)

RECURSIVE NormalizeValue(_), NormalizeItems(_, _), AttributeMapLoop(_, _, _, _)
RECURSIVE InstDictLoop(_, _, _), VarsLoop(_, _, _)
RECURSIVE _convert_sdk_object_to_dict(_)

\* The list comprehension of lines 82, 107, 139 and 161: items with a
\* __dict__ are converted, the others are kept; an exception ends it.
NormalizeItems(l, i) ==
    IF i > Len(l) THEN PyList(<<>>)
    ELSE LET head == IF HasInstDict(l[i])
                     THEN _convert_sdk_object_to_dict(l[i]) ELSE l[i]
             rest == NormalizeItems(l, i + 1)
         IN  IF IsRaised(head) THEN head
             ELSE IF IsRaised(rest) THEN rest
             ELSE PyList(<<head>> \o rest.l)

\* The value rule the strategies share (lines 75-84, 100-109, 132-142,
\* 156-163): isoformat() for datetimes, recursion for objects with a
\* __dict__, element-wise conversion for lists, anything else as it is.
NormalizeValue(v) ==
    IF HasIsoformat(v) THEN PyStr(Isoformat(v))
    ELSE IF v.t = "obj" /\ v.inst.m = "probe_raises"
         THEN Raised(Exc("RuntimeError", "probe"))
    ELSE IF HasInstDict(v) THEN _convert_sdk_object_to_dict(v)
    ELSE IF v.t = "list" THEN NormalizeItems(v.l, 1)
    ELSE v

\* STRATEGY 1 (lines 58-65): result.update(obj.to_dict()) when the call
\* returns a dict; an exception of the call is logged and dropped.
Strategy1(o, res) ==
    IF o.td.m = "returns" /\ o.td.v.t = "dict" THEN Update(res, o.td.v.d)
    ELSE res

\* The loop of STRATEGY 2 (lines 70-88) from pair i on: both the api name
\* and the python name are assigned, overwriting what is there. An exception
\* leaves the loop with what was stored so far.
AttributeMapLoop(o, p, i, res) ==
    IF i > Len(p) THEN res
    ELSE LET python_name == p[i][1]
             api_name == p[i][2]
         IN  IF ~HasAttr(o, python_name) \/ GetAttr(o, python_name) = PyNone
             THEN AttributeMapLoop(o, p, i + 1, res)
             ELSE LET nv == NormalizeValue(GetAttr(o, python_name))
                  IN  IF IsRaised(nv) THEN res
                      ELSE AttributeMapLoop(o, p, i + 1,
                               Put(Put(res, api_name, nv), python_name, nv))

\* STRATEGY 2 (lines 68-92): attribute_map.items() raises when attribute_map
\* is not a mapping; the exception is logged and dropped.
Strategy2(o, res) ==
    IF o.am.m = "pairs" THEN AttributeMapLoop(o, o.am.p, 1, res) ELSE res

\* The loop of STRATEGY 3 (lines 97-109): every instance attribute that is
\* not None is assigned under its own name, private names included.
InstDictLoop(p, i, res) ==
    IF i > Len(p) THEN res
    ELSE IF p[i][2] = PyNone THEN InstDictLoop(p, i + 1, res)
    ELSE LET nv == NormalizeValue(p[i][2])
         IN  IF IsRaised(nv) THEN res
             ELSE InstDictLoop(p, i + 1, Put(res, p[i][1], nv))

\* STRATEGY 3 (lines 95-113)
Strategy3(o, res) ==
    IF o.inst.m = "items" THEN InstDictLoop(o.inst.p, 1, res) ELSE res

\* STRATEGY 4 (lines 116-149): the dir() scan adds the public, non-callable,
\* non-None members that are not in the result yet; an attribute whose
\* conversion raises is skipped, and a raising dir() ends the scan.
Strategy4(o, res) ==
    IF o.dirx THEN res
    ELSE LET new == {n \in PublicDirNames(o) \ DOMAIN res :
                        /\ GetAttr(o, n) # PyNone
                        /\ ~IsRaised(NormalizeValue(GetAttr(o, n)))}
         IN  [k \in DOMAIN res \cup new |->
                 IF k \in DOMAIN res THEN res[k]
                 ELSE NormalizeValue(GetAttr(o, k))]

\* The loop of STRATEGY 5 (lines 154-163) over vars(obj).
VarsLoop(p, i, res) ==
    IF i > Len(p) THEN res
    ELSE IF p[i][1] \in DOMAIN res \/ p[i][2] = PyNone
         THEN VarsLoop(p, i + 1, res)
    ELSE LET nv == NormalizeValue(p[i][2])
         IN  IF IsRaised(nv) THEN res
             ELSE VarsLoop(p, i + 1, Put(res, p[i][1], nv))

\* STRATEGY 5 (lines 152-166): vars(obj) raises TypeError without __dict__.
Strategy5(o, res) ==
    IF o.inst.m = "items" THEN VarsLoop(o.inst.p, 1, res) ELSE res

\* Lines 181-184: the mapping returned when nothing was extracted.
ExtractionFailed(ty) ==
    PyDict([k \in {"_raw_object_type", "_extraction_failed"} |->
               IF k = "_raw_object_type" THEN PyStr(StrOfType(ty))
               ELSE PyBool(TRUE)])

\* ConvertObject without lines 182-184: an empty result is returned as it is.
ConvertObjectNoSentinel(o) ==
    IF o.td.m = "probe_raises" \/ o.am.m = "probe_raises"
         \/ o.inst.m = "probe_raises"
    THEN Raised(Exc("RuntimeError", "probe"))
    ELSE PyDict(Strategy5(o, Strategy4(o, Strategy3(o,
                    Strategy2(o, Strategy1(o, EmptyMap))))))

\* Lines 52-186 for an object: the five strategies in order on one result
\* dictionary. The three capability probes (hasattr at lines 58, 68 and 95)
\* sit outside every try block, and hasattr lets through any exception that
\* is not AttributeError.
ConvertObject(o) ==
    IF o.td.m = "probe_raises" \/ o.am.m = "probe_raises"
         \/ o.inst.m = "probe_raises"
    THEN Raised(Exc("RuntimeError", "probe"))
    ELSE LET result ==
                 Strategy5(o, Strategy4(o, Strategy3(o,
                     Strategy2(o, Strategy1(o, EmptyMap)))))
         IN  IF result = EmptyMap THEN ExtractionFailed(o.ty)
             ELSE PyDict(result)

\* _convert_sdk_object_to_dict without the isinstance(obj, dict) return of
\* lines 49-50: a dict goes through the strategies like any other object.
ConvertWithoutDictCheck(obj) ==
    IF obj.t = "none" THEN EmptyDict
    ELSE IF obj.t = "obj" THEN ConvertObject(obj)
    ELSE ConvertObject(BuiltinAsObject(obj))

\* Lines 45-50, then the strategies: None gives {}, a dict is returned as it
\* is, and everything else (lists and the other built-in types too) goes
\* through the strategies.
_convert_sdk_object_to_dict(obj) ==
    IF obj.t = "none" THEN EmptyDict
    ELSE IF obj.t = "dict" THEN obj
    ELSE IF obj.t = "obj" THEN ConvertObject(obj)
    ELSE ConvertObject(BuiltinAsObject(obj))

----------------------------------------------------------------------------
(* JSON text and the envelope builders *)

(***************************************************************************)
(* A JSON text is modelled by its parse tree:                              *)
(*   [j |-> "null"], [j |-> "true"], [j |-> "false"],                      *)
(*   [j |-> "number", n |-> 3], [j |-> "string", s |-> "..."],             *)
(*   [j |-> "object", m |-> f], [j |-> "array", a |-> <<...>>]             *)
(***************************************************************************)
JNull == [j |-> "null"]

JBool(b) == [j |-> IF b THEN "true" ELSE "false"]

JString(s) == [j |-> "string", s |-> s]

JObject(m) == [j |-> "object", m |-> m]

\* str(value) for the values json.dumps cannot encode itself.
StrOf(v) ==
    IF v.t = "datetime" THEN v.date \o " " \o v.time
    ELSE IF v.t = "obj" THEN "<" \o v.ty \o " object>"
    ELSE "<bound method>"

RECURSIVE JsonDumps(_, _)
\* json.dumps(v, default=str) when default_str, json.dumps(v) otherwise:
\* values of no JSON type go through default, and without a default raise
\* TypeError.
JsonDumps(v, default_str) ==
    CASE v.t = "none" -> JNull
      [] v.t = "bool" -> JBool(v.b)
      [] v.t = "int" -> [j |-> "number", n |-> v.n]
      [] v.t = "str" -> JString(v.s)
      [] v.t = "dict" ->
            IF \E k \in DOMAIN v.d : IsRaised(JsonDumps(v.d[k], default_str))
            THEN Raised(Exc("TypeError", "not JSON serializable"))
            ELSE JObject([k \in DOMAIN v.d |-> JsonDumps(v.d[k], default_str)])
      [] v.t = "list" ->
            IF \E i \in 1..Len(v.l) : IsRaised(JsonDumps(v.l[i], default_str))
            THEN Raised(Exc("TypeError", "not JSON serializable"))
            ELSE [j |-> "array",
                  a |-> [i \in 1..Len(v.l) |-> JsonDumps(v.l[i], default_str)]]
      [] OTHER ->
            IF default_str THEN JString(StrOf(v))
            ELSE Raised(Exc("TypeError", "not JSON serializable"))

RECURSIVE JsonLoads(_)
\* json.loads(text)
JsonLoads(x) ==
    CASE x.j = "null" -> PyNone
      [] x.j = "true" -> PyBool(TRUE)
      [] x.j = "false" -> PyBool(FALSE)
      [] x.j = "number" -> PyInt(x.n)
      [] x.j = "string" -> PyStr(x.s)
      [] x.j = "object" -> PyDict([k \in DOMAIN x.m |-> JsonLoads(x.m[k])])
      [] OTHER -> PyList([i \in 1..Len(x.a) |-> JsonLoads(x.a[i])])

\* A two- or three-entry dict literal.
Dict2(k1, v1, k2, v2) ==
    PyDict([k \in {k1, k2} |-> IF k = k1 THEN v1 ELSE v2])

Dict3(k1, v1, k2, v2, k3, v3) ==
    PyDict([k \in {k1, k2, k3} |-> IF k = k1 THEN v1 ELSE IF k = k2 THEN v2 ELSE v3])

\* _success_response without default=str, as _error_response is written.
SuccessResponseNoDefault(data) ==
    JsonDumps(Dict2("success", PyBool(TRUE), "data", data), FALSE)

\* BaseTools._success_response
_success_response(data) ==
    JsonDumps(Dict2("success", PyBool(TRUE), "data", data), TRUE)

\* _error_response that leaves the data key out.
ErrorResponseWithoutData(error_message, data) ==
    JsonDumps(Dict2("success", PyBool(FALSE), "error", error_message), FALSE)

\* BaseTools._error_response
_error_response(error_message, data) ==
    JsonDumps(Dict3("success", PyBool(FALSE), "error", error_message,
                    "data", data), FALSE)

----------------------------------------------------------------------------
(* The response builders of the resources *)

\* BaseResources._json_response
_json_response(data) == JsonDumps(data, TRUE)

\* BaseResources._error_response with a success discriminator added.
ResourceErrorWithSuccess(error, fallback_data) ==
    _json_response(PyDict(Update([k \in {"success", "error"} |->
                                     IF k = "error" THEN error ELSE PyBool(FALSE)],
                                 IF fallback_data.t = "dict" THEN fallback_data.d
                                 ELSE EmptyMap)))

\* BaseResources._error_response: {"error": error, **fallback_data}, the
\* fallback's keys over the error key; a fallback that is truthy and no
\* mapping cannot be unpacked.
BaseResources_error_response(error, fallback_data) ==
    IF fallback_data \in {PyNone, PyStr(""), PyBool(FALSE), PyInt(0), EmptyDict, PyList(<<>>)}
    THEN _json_response(PyDict([k \in {"error"} |-> error]))
    ELSE IF fallback_data.t = "dict"
    THEN _json_response(PyDict(Update([k \in {"error"} |-> error], fallback_data.d)))
    ELSE Raised(Exc("TypeError", "argument after ** must be a mapping"))

----------------------------------------------------------------------------
(* The inputs the Normalizer is run on *)

\* Longest list handed to the Normalizer.
MaxLen == 3

\* Deepest nesting of objects inside attribute values.
MaxDepth == 1

\* All sequences over S of length at most n.
RECURSIVE SeqsUpTo(_, _)
SeqsUpTo(S, n) ==
    IF n = 0 THEN {<<>>}
    ELSE LET shorter == SeqsUpTo(S, n - 1)
         IN  shorter \cup {Append(q, x) : q \in {r \in shorter : Len(r) = n - 1}, x \in S}

\* The pairs <<k, v>> for the chosen value of each key, in the order of keys;
\* the choice Absent leaves the key out.
RECURSIVE ItemsOf(_, _)
ItemsOf(keys, choice) ==
    IF keys = <<>> THEN <<>>
    ELSE LET k == Head(keys)
             rest == ItemsOf(Tail(keys), choice)
         IN  IF choice[k] = Absent THEN rest ELSE <<<<k, choice[k]>>>> \o rest

Items(p) == [m |-> "items", p |-> p]

\* An object from which nothing can be extracted: no to_dict, no
\* attribute_map, no __dict__, no data member.
OpaqueObject ==
    MkObj("Opaque", Absent, Absent, Absent, EmptyMap, EmptyMap, FALSE)

\* A chain of d objects nested through the attribute child.
RECURSIVE Nest(_)
Nest(d) ==
    MkObj("Nested", Absent, Absent,
          Items(IF d = 0 THEN <<<<"name", PyStr("leaf")>>>>
                ELSE <<<<"name", PyStr("node")>>, <<"child", Nest(d - 1)>>>>),
          EmptyMap, EmptyMap, FALSE)

\* An object with a __dict__ whose conversion raises.
RaisingChild ==
    MkObj("Nested", ProbeRaises, Absent, Items(<<<<"name", PyStr("x")>>>>),
          EmptyMap, EmptyMap, FALSE)

\* Values an extra attribute may hold: a datetime, nested objects, a list.
ExtraValues ==
    {PyDatetime("2024-01-01", "00:00:00")}
    \cup {Nest(d) : d \in 0..MaxDepth}
    \cup {RaisingChild, PyList(<<Nest(0), PyStr("s")>>)}

InstKeyOrder == <<"id", "name", "_internal_cache", "extra">>

\* The instance dictionaries of the model's objects.
InstChoices ==
    {Absent, ProbeRaises} \cup
    {Items(ItemsOf(InstKeyOrder, c)) :
        c \in [id : {Absent, PyNone, PyStr("a")},
               name : {Absent, PyStr("n")},
               _internal_cache : {Absent, PyStr("c")},
               extra : {Absent} \cup ExtraValues]}

\* What to_dict may be: missing, raising, returning no dict, or returning a
\* dict that may disagree with the attributes and carry a private key.
ToDictChoices ==
    {Absent, ProbeRaises, [m |-> "raises"], [m |-> "returns", v |-> PyStr("x")]}
    \cup {[m |-> "returns", v |-> PyDict(d)] :
            d \in {[k \in ks |-> IF k = "id" THEN idv ELSE PyStr("c")] :
                      ks \in SUBSET {"id", "_internal_cache"},
                      idv \in {PyNone, PyStr("b")}}}

AttributeMapChoices ==
    {Absent, ProbeRaises, [m |-> "other", v |-> PyStr("x")],
     [m |-> "pairs", p |-> <<<<"name", "displayName">>>>],
     [m |-> "pairs", p |-> <<<<"id", "id">>, <<"name", "displayName">>>>]}

\* Data members outside the instance dictionary: on the class, or served by
\* __getattr__.
MemberChoices == {EmptyMap, [k \in {"id"} |-> PyStr("a")]}

Objects ==
    {MkObj("Page", td, am, inst, cls, dyn, dirx) :
        td \in ToDictChoices, am \in AttributeMapChoices, inst \in InstChoices,
        cls \in MemberChoices, dyn \in MemberChoices, dirx \in BOOLEAN}

\* Mappings handed to the Normalizer as they are.
Mappings ==
    {PyDict(d) :
        d \in {[k \in ks |-> IF k = "id" THEN PyStr("123")
                             ELSE IF k = "name" THEN PyStr("Test Page")
                             ELSE IF k = "_internal_cache" THEN PyStr("c")
                             ELSE PyDatetime("2024-01-01", "00:00:00")] :
                  ks \in SUBSET {"id", "name", "_internal_cache", "created_at"}}}

\* The elements of the lists handed to the Normalizer.
Elements ==
    {OpaqueObject, Nest(0),
     MkObj("Page", Absent, Absent,
           Items(<<<<"id", PyStr("a")>>, <<"name", PyStr("n")>>>>),
           EmptyMap, EmptyMap, FALSE),
     PyDict([k \in {"id"} |-> PyStr("123")])}

Lists == {PyList(l) : l \in SeqsUpTo(Elements, MaxLen)}

NormalizerInputs ==
    {PyNone, PyStr("text"), PyInt(5), OpaqueObject}
    \cup Mappings \cup Lists \cup Objects

----------------------------------------------------------------------------
(* The tool pipelines *)

(***************************************************************************)
(* A tool operator takes the tool's arguments and `world`, what the        *)
(* collaborator call of the invocation does: a returned value or           *)
(* Raised(e). It gives [ret |-> the JSON text returned or Raised(e) when   *)
(* an exception leaves the tool, calls |-> the collaborator calls made].   *)
(***************************************************************************)

\* str(e)
ExcStr(e) == PyStr(e.msg)

\* The exception classes `except PingeraError` catches.
IsPingeraError(cls) ==
    cls \in {"PingeraError", "PingeraAPIError", "PingeraAuthError",
             "PingeraConnectionError", "PingeraTimeoutError"}

\* value.name: AttributeError when the value has no such attribute. A value
\* that could not be computed (Raised) stays what it is.
Getattr(v, name) ==
    IF IsRaised(v) THEN v
    ELSE IF v.t = "obj" /\ HasAttr(v, name) THEN GetAttr(v, name)
    ELSE Raised(Exc("AttributeError", "no attribute " \o name))

\* value.name(): the model's methods take no argument.
CallMethod(v, name) ==
    LET f == Getattr(v, name)
    IN  IF IsRaised(f) THEN f
        ELSE IF Callable(f) THEN f.returns
        ELSE Raised(Exc("TypeError", "object is not callable"))

\* [x.dict() for x in xs]: TypeError when xs is not iterable, and the first
\* exception of a dict() call ends the comprehension.
DictOfEach(xs) ==
    IF IsRaised(xs) THEN xs
    ELSE IF xs.t # "list" THEN Raised(Exc("TypeError", "object is not iterable"))
    ELSE IF \E i \in 1..Len(xs.l) : IsRaised(CallMethod(xs.l[i], "dict"))
    THEN CallMethod(xs.l[CHOOSE i \in 1..Len(xs.l) :
                             /\ IsRaised(CallMethod(xs.l[i], "dict"))
                             /\ \A h \in 1..(i - 1) :
                                    ~IsRaised(CallMethod(xs.l[h], "dict"))], "dict")
    ELSE PyList([i \in 1..Len(xs.l) |-> CallMethod(xs.l[i], "dict")])

\* A dict literal over the keys of m: the first value that raised, if any
\* (the keys are evaluated in the order of `order`), else the dict.
DictLiteral(order, m) ==
    IF \E i \in 1..Len(order) : IsRaised(m[order[i]])
    THEN m[order[CHOOSE i \in 1..Len(order) :
                     /\ IsRaised(m[order[i]])
                     /\ \A h \in 1..(i - 1) : ~IsRaised(m[order[h]])]]
    ELSE PyDict(m)

\* return self._success_response(data), where computing data may have raised.
SuccessOf(data) == IF IsRaised(data) THEN data ELSE _success_response(data)

\* except PingeraError that answers with data None whatever the tool passes.
ExceptPingeraErrorWithoutData(out, data) ==
    IF IsRaised(out) /\ IsPingeraError(out.e.cls)
    THEN _error_response(ExcStr(out.e), PyNone)
    ELSE out

\* except PingeraError as e: return self._error_response(str(e), data);
\* any other exception leaves the tool.
ExceptPingeraError(out, data) ==
    IF IsRaised(out) /\ IsPingeraError(out.e.cls)
    THEN _error_response(ExcStr(out.e), data)
    ELSE out

\* except ValueError: return self._error_response(f"Invalid page ID: ...")
\* ahead of except PingeraError (pages.py 173-178, 202-207, 235-240).
ExceptValueError(out, page_id) ==
    IF IsRaised(out) /\ out.e.cls = "ValueError"
    THEN _error_response(PyStr("Invalid page ID: " \o page_id), PyNone)
    ELSE ExceptPingeraError(out, PyNone)

\* except Exception as e: return self._error_response(str(e))
ExceptException(out) ==
    IF IsRaised(out) THEN _error_response(ExcStr(out.e), PyNone) ELSE out

Call(method, args) == [method |-> method, args |-> args]

\* The strings int() accepts, among the page ids of the model.
IntStrings == {"123"}

\* int() that takes every string for a number.
IntOfAnyString(page_id) == PyInt(123)

\* int(page_id)
IntOf(page_id) ==
    IF page_id \in IntStrings THEN PyInt(123)
    ELSE Raised(Exc("ValueError", "invalid literal for int()"))

\* bool(v), as `if name:` and `if success:` test it.
Truthy(v) ==
    v \notin {PyNone, PyStr(""), PyBool(FALSE), PyInt(0), EmptyDict, PyList(<<>>)}

\* page_data / component_data: base, then the fields that are truthy (or,
\* for the names in notNone, not None), then kwargs over them
\* (page_data.update(kwargs)).
BuildData(base, fields, notNone, kwargs) ==
    Update(Update(base,
                  [k \in {f \in DOMAIN fields :
                             IF f \in notNone THEN fields[f] # PyNone
                             ELSE Truthy(fields[f])} |-> fields[k]]),
           kwargs)

\* hasattr(response, 'to_dict') ... elif hasattr(response, '__dict__') ...
\* else other: the formatting the tools give an SDK response. A probe that
\* raises, or a to_dict() that raises, raises from here.
FormatResponse(response, other) ==
    IF IsRaised(response) THEN response
    ELSE IF response.t = "obj" /\ response.td.m \in {"probe_raises", "raises"}
    THEN Raised(Exc("RuntimeError", "to_dict failed"))
    ELSE IF response.t = "obj" /\ response.td.m = "returns" THEN response.td.v
    ELSE IF response.t = "obj" /\ response.inst.m = "probe_raises"
    THEN Raised(Exc("RuntimeError", "__dict__ failed"))
    ELSE IF HasInstDict(response)
    THEN PyDict([k \in PairKeys(InstItems(response)) |->
                    PairGet(InstItems(response), k)])
    ELSE other

\* response if isinstance(response, list) else [response]
AsList(response) ==
    IF IsRaised(response) \/ response.t = "list" THEN response
    ELSE PyList(<<response>>)

(* PagesTools *)

\* list_pages without its parameter validation: per_page goes to the
\* collaborator as given.
PerPageAsGiven(per_page) == per_page

\* if per_page is not None and per_page > 100: per_page = 100
ValidatePerPage(per_page) ==
    IF per_page # PyNone /\ per_page.n > 100 THEN PyInt(100) ELSE per_page

\* PagesTools.list_pages
list_pages(page, per_page, status, world) ==
    LET pp == ValidatePerPage(per_page)
        pages == world
        data == DictLiteral(<<"pages", "total", "page", "per_page">>,
                    [k \in {"pages", "total", "page", "per_page"} |->
                        IF k = "pages" THEN DictOfEach(Getattr(pages, "pages"))
                        ELSE Getattr(pages, k)])
    IN  [ret |-> ExceptPingeraError(SuccessOf(data),
                    Dict2("pages", PyList(<<>>), "total", PyInt(0))),
         calls |-> <<Call("get_pages",
                          [page |-> page, per_page |-> pp, status |-> status])>>]

\* PagesTools.get_page_details
get_page_details(page_id, world) ==
    [ret |-> ExceptPingeraError(SuccessOf(CallMethod(world, "dict")), PyNone),
     calls |-> <<Call("get_page", [page_id |-> page_id])>>]

\* PagesTools.create_page
create_page(name, subdomain, domain, url, language, kwargs, world) ==
    LET page_data == BuildData([k \in {"name"} |-> name],
                               [subdomain |-> subdomain, domain |-> domain,
                                url |-> url, language |-> language],
                               {}, kwargs)
    IN  [ret |-> ExceptPingeraError(SuccessOf(CallMethod(world, "dict")), PyNone),
         calls |-> <<Call("pages.create", [page_data |-> page_data])>>]

\* PagesTools.update_page
update_page(page_id, name, subdomain, domain, url, language, kwargs, world) ==
    LET page_data == BuildData(EmptyMap,
                               [name |-> name, subdomain |-> subdomain,
                                domain |-> domain, url |-> url,
                                language |-> language],
                               {}, kwargs)
        page_id_int == IntOf(page_id)
        page == IF IsRaised(page_id_int) THEN page_id_int ELSE world
    IN  [ret |-> ExceptValueError(SuccessOf(CallMethod(page, "dict")), page_id),
         calls |-> IF IsRaised(page_id_int) THEN <<>>
                   ELSE <<Call("pages.update",
                               [page_id |-> page_id_int, page_data |-> page_data])>>]

\* patch_page with int(page_id) ahead of the kwargs check: a malformed
\* page_id is reported before an empty patch is.
PatchPageIdFirst(page_id, kwargs, world) ==
    IF IsRaised(IntOf(page_id))
    THEN [ret |-> ExceptValueError(IntOf(page_id), page_id), calls |-> <<>>]
    ELSE IF kwargs = EmptyMap
    THEN [ret |-> _error_response(PyStr("No fields provided for update"), PyNone),
          calls |-> <<>>]
    ELSE [ret |-> ExceptValueError(SuccessOf(CallMethod(world, "dict")), page_id),
          calls |-> <<Call("pages.patch",
                           [page_id |-> IntOf(page_id), page_data |-> kwargs])>>]

\* PagesTools.patch_page
patch_page(page_id, kwargs, world) ==
    LET page_id_int == IntOf(page_id)
        page == IF IsRaised(page_id_int) THEN page_id_int ELSE world
    IN  IF kwargs = EmptyMap
        THEN [ret |-> _error_response(PyStr("No fields provided for update"), PyNone),
              calls |-> <<>>]
        ELSE [ret |-> ExceptValueError(SuccessOf(CallMethod(page, "dict")), page_id),
              calls |-> IF IsRaised(page_id_int) THEN <<>>
                        ELSE <<Call("pages.patch",
                                    [page_id |-> page_id_int, page_data |-> kwargs])>>]

\* PagesTools.delete_page
delete_page(page_id, world) ==
    LET page_id_int == IntOf(page_id)
        success == IF IsRaised(page_id_int) THEN page_id_int ELSE world
        out == IF IsRaised(success) THEN success
               ELSE IF Truthy(success)
               THEN JsonDumps(Dict3("success", PyBool(TRUE),
                                    "message", PyStr("Page " \o page_id \o " deleted successfully"),
                                    "data", PyDict([k \in {"page_id"} |-> PyStr(page_id)])),
                              FALSE)
               ELSE _error_response(PyStr("Failed to delete page"), PyNone)
    IN  [ret |-> ExceptValueError(out, page_id),
         calls |-> IF IsRaised(page_id_int) THEN <<>>
                   ELSE <<Call("pages.delete", [page_id |-> page_id_int])>>]

(* ComponentTools *)

\* ComponentTools.list_component_groups
list_component_groups(page_id, show_deleted, world) ==
    LET component_groups == world
        data == DictLiteral(<<"page_id", "component_groups", "total", "show_deleted">>,
                    [k \in {"page_id", "component_groups", "total", "show_deleted"} |->
                        IF k = "page_id" THEN PyStr(page_id)
                        ELSE IF k = "component_groups" THEN DictOfEach(component_groups)
                        ELSE IF k = "total"
                        THEN IF component_groups.t = "list"
                             THEN PyInt(Len(component_groups.l))
                             ELSE Raised(Exc("TypeError", "object has no len()"))
                        ELSE PyBool(show_deleted)])
    IN  [ret |-> ExceptPingeraError(SuccessOf(data),
                    Dict2("component_groups", PyList(<<>>), "total", PyInt(0))),
         calls |-> <<Call("components.get_component_groups",
                          [page_id |-> page_id, show_deleted |-> show_deleted])>>]

\* ComponentTools.get_component_details
get_component_details(page_id, component_id, world) ==
    LET component == world
        component_dict == FormatResponse(component,
                              IF component # PyNone THEN component ELSE EmptyDict)
    IN  [ret |-> ExceptPingeraError(SuccessOf(component_dict), PyNone),
         calls |-> <<Call("components.get_component",
                          [page_id |-> page_id, component_id |-> component_id])>>]

\* ComponentTools.create_component
create_component(page_id, name, description, group, group_id, only_show_if_degraded, position, showcase, status, kwargs, world) ==
    LET component_data ==
            BuildData([k \in {"name"} |-> name],
                      [description |-> description, group |-> group,
                       group_id |-> group_id,
                       only_show_if_degraded |-> only_show_if_degraded,
                       position |-> position, showcase |-> showcase,
                       status |-> status],
                      {"group", "only_show_if_degraded", "position", "showcase"},
                      kwargs)
    IN  [ret |-> ExceptPingeraError(SuccessOf(CallMethod(world, "dict")), PyNone),
         calls |-> <<Call("components.create_component",
                          [page_id |-> page_id, component_data |-> component_data])>>]

\* ComponentTools.update_component
update_component(page_id, component_id, name, description, group, group_id, only_show_if_degraded, position, showcase, status, kwargs, world) ==
    LET component_data ==
            BuildData(EmptyMap,
                      [name |-> name, description |-> description, group |-> group,
                       group_id |-> group_id,
                       only_show_if_degraded |-> only_show_if_degraded,
                       position |-> position, showcase |-> showcase,
                       status |-> status],
                      {"group", "only_show_if_degraded", "position", "showcase"},
                      kwargs)
    IN  [ret |-> ExceptPingeraError(SuccessOf(CallMethod(world, "dict")), PyNone),
         calls |-> <<Call("components.update_component",
                          [page_id |-> page_id, component_id |-> component_id,
                           component_data |-> component_data])>>]

\* ComponentTools.patch_component
patch_component(page_id, component_id, kwargs, world) ==
    IF kwargs = EmptyMap
    THEN [ret |-> _error_response(PyStr("No fields provided for update"), PyNone),
          calls |-> <<>>]
    ELSE [ret |-> ExceptPingeraError(SuccessOf(CallMethod(world, "dict")), PyNone),
          calls |-> <<Call("components.patch_component",
                           [page_id |-> page_id, component_id |-> component_id,
                            component_data |-> kwargs])>>]

\* ComponentTools.delete_component
delete_component(page_id, component_id, world) ==
    LET success == world
        out == IF IsRaised(success) THEN success
               ELSE IF Truthy(success)
               THEN JsonDumps(Dict3("success", PyBool(TRUE),
                                    "message", PyStr("Component " \o component_id
                                                     \o " deleted successfully"),
                                    "data", Dict2("page_id", PyStr(page_id),
                                                  "component_id", PyStr(component_id))),
                              FALSE)
               ELSE _error_response(PyStr("Failed to delete component"), PyNone)
    IN  [ret |-> ExceptPingeraError(out, PyNone),
         calls |-> <<Call("components.delete_component",
                          [page_id |-> page_id, component_id |-> component_id])>>]

(* HeartbeatsTools and ChecksTools *)

\* kwargs of an API call: the arguments that are not None.
NotNone(args) == [k \in {a \in DOMAIN args : args[a] # PyNone} |-> args[k]]

\* HeartbeatsTools.list_heartbeats; status is not forwarded.
list_heartbeats(page, page_size, status, world) ==
    LET response == world
        heartbeats_data == FormatResponse(response,
                               PyDict([k \in {"heartbeats"} |-> AsList(response)]))
    IN  [ret |-> ExceptException(SuccessOf(heartbeats_data)),
         calls |-> <<Call("v1_heartbeats_get",
                          NotNone([page |-> page, page_size |-> page_size]))>>]

\* HeartbeatsTools.get_heartbeat_details
get_heartbeat_details(heartbeat_id, world) ==
    [ret |-> ExceptException(SuccessOf(FormatResponse(world, world))),
     calls |-> <<Call("v1_heartbeats_heartbeat_id_get",
                      [heartbeat_id |-> heartbeat_id])>>]

\* The body shared by create_heartbeat, update_heartbeat, delete_heartbeat
\* and send_heartbeat_ping (lines 82-144): a fixed text, no collaborator call.
NotImplementedInSdk(what) ==
    [ret |-> JsonDumps(Dict3("success", PyBool(FALSE),
                             "error", PyStr("Heartbeat " \o what
                                            \o " not yet implemented in SDK"),
                             "message", PyStr("Write operations require SDK method implementation")),
                       FALSE),
     calls |-> <<>>]

\* HeartbeatsTools.create_heartbeat
create_heartbeat(heartbeat_data) == NotImplementedInSdk("creation")

\* HeartbeatsTools.update_heartbeat
update_heartbeat(heartbeat_id, heartbeat_data) == NotImplementedInSdk("update")

\* HeartbeatsTools.delete_heartbeat
delete_heartbeat(heartbeat_id) == NotImplementedInSdk("deletion")

\* HeartbeatsTools.send_heartbeat_ping
send_heartbeat_ping(heartbeat_id) == NotImplementedInSdk("ping")

\* ChecksTools._format_check_response
_format_check_response(response) ==
    IF IsRaised(response) THEN response
    ELSE IF response.t = "obj" /\ response.inst.m = "probe_raises"
    THEN Raised(Exc("RuntimeError", "__dict__ failed"))
    ELSE IF HasInstDict(response)
    THEN PyDict([k \in PairKeys(InstItems(response)) |->
                    PairGet(InstItems(response), k)])
    ELSE response

\* ChecksTools.get_check_details
get_check_details(check_id, world) ==
    [ret |-> ExceptException(SuccessOf(_format_check_response(world))),
     calls |-> <<Call("v1_checks_check_id_get", [check_id |-> check_id])>>]

\* ChecksTools.delete_check: what the API call returns is not used.
delete_check(check_id, world) ==
    [ret |-> ExceptException(
                 IF IsRaised(world) THEN world
                 ELSE _success_response(
                          Dict2("message", PyStr("Check " \o check_id
                                                 \o " deleted successfully"),
                                "check_id", PyStr(check_id)))),
     calls |-> <<Call("v1_checks_check_id_delete", [check_id |-> check_id])>>]

----------------------------------------------------------------------------
(* State *)

VARIABLES
    obj,        \* the argument of the current _convert_sdk_object_to_dict call
    converted,  \* what the call returned or raised; Pending before it ran
    payload,    \* the arguments of the current envelope-builder call
    response,   \* the builder called and what it returned; Pending before
    invocation, \* the tool invoked, its arguments, and what its collaborator does
    ret,        \* the text the tool returned, or Raised(e); Pending before
    calls,      \* the collaborator calls the invocation made
    server,     \* the start-up of mcp_server.py: mode, position, registered tools
    tasks,      \* invocations in flight at once, each with its own result
    sdk         \* an SDK client: its API client contexts and its current operation

vars == <<obj, converted, payload, response, invocation, ret, calls, server, tasks, sdk>>

normalizerVars == <<obj, converted>>

envelopeVars == <<payload, response>>

toolVars == <<invocation, ret, calls>>

serverVars == <<server, tasks, sdk>>

Pending == [t |-> "pending"]

Invocation(tool, args, world) == [tool |-> tool, args |-> args, world |-> world]

----------------------------------------------------------------------------
(* The Normalizer as a state machine *)

\* One call of the Normalizer on the current argument.
Convert ==
    /\ converted = Pending
    /\ converted' = _convert_sdk_object_to_dict(obj)
    /\ UNCHANGED <<obj, envelopeVars, toolVars, serverVars>>

\* The caller hands the Normalizer another response object.
NextObject ==
    /\ converted # Pending
    /\ obj' \in Elements
    /\ converted' = Pending
    /\ UNCHANGED <<envelopeVars, toolVars, serverVars>>

NormalizerIdle == obj = PyNone /\ converted = Pending

EnvelopeIdle ==
    payload = [error_message |-> PyStr(""), data |-> PyNone] /\ response = Pending

ToolsIdle ==
    /\ invocation = Invocation("none", EmptyMap, PyNone)
    /\ ret = Pending
    /\ calls = <<>>

\* No server is starting, no task is in flight, no SDK client exists.
ServerIdle ==
    /\ server = [mode |-> "none", pc |-> 0, registered |-> {}]
    /\ tasks = <<>>
    /\ sdk = [module |-> "none"]

InitNormalizer ==
    /\ obj \in NormalizerInputs
    /\ converted = Pending
    /\ EnvelopeIdle
    /\ ToolsIdle
    /\ ServerIdle

NextNormalizer == Convert \/ NextObject

SpecNormalizer == InitNormalizer /\ [][NextNormalizer]_vars

----------------------------------------------------------------------------
(* The envelope builders as a state machine *)

\* The data values the tools hand to the builders: None, normalized
\* mappings and lists, the extraction-failed mapping, and the raw __dict__
\* of a response (checks.py 501-502), which holds datetimes and objects.
EnvelopeData ==
    {PyNone, EmptyDict, ExtractionFailed("Opaque"),
     Dict2("pages", PyList(<<>>), "total", PyInt(0)),
     Dict2("component_groups", PyList(<<>>), "total", PyInt(0)),
     Dict2("id", PyStr("chk1"), "created_at", PyDatetime("2024-01-01", "00:00:00")),
     Dict2("id", PyStr("chk1"), "owner", Nest(0))}
    \cup Mappings
    \cup {PyList(l) :
            l \in SeqsUpTo({Dict2("id", PyStr("123"), "name", PyStr("Test Page")),
                            ExtractionFailed("Opaque")}, MaxLen)}

ErrorMessages ==
    {PyStr("Authentication failed. Check your API key."), PyStr("API Error"),
     PyStr("No fields provided for update")}

SuccessResponse ==
    /\ response = Pending
    /\ response' = [fn |-> "success", out |-> _success_response(payload.data)]
    /\ UNCHANGED <<payload, normalizerVars, toolVars, serverVars>>

ErrorResponse ==
    /\ response = Pending
    /\ response' = [fn |-> "error",
                    out |-> _error_response(payload.error_message, payload.data)]
    /\ UNCHANGED <<payload, normalizerVars, toolVars, serverVars>>

InitEnvelope ==
    /\ payload \in [error_message : ErrorMessages, data : EnvelopeData]
    /\ response = Pending
    /\ NormalizerIdle
    /\ ToolsIdle
    /\ ServerIdle

NextEnvelope == SuccessResponse \/ ErrorResponse

SpecEnvelope == InitEnvelope /\ [][NextEnvelope]_vars

----------------------------------------------------------------------------
(* The resources' response builders as a state machine *)

\* What the resources hand to their builders: listings and single items as
\* the tests read them back (test_components.py 411-475), and fallbacks.
ResourceData ==
    {PyNone, EmptyDict,
     Dict2("page_id", PyStr("page123"), "component_groups", PyList(<<>>)),
     Dict2("page_id", PyStr("page123"),
           "component_groups",
           PyList(<<Dict2("id", PyStr("group1"), "name", PyStr("Infrastructure")),
                    Dict2("id", PyStr("group2"), "name", PyStr("Services"))>>)),
     Dict2("page_id", PyStr("page123"),
           "component", Dict2("name", PyStr("API Server"),
                              "status", PyStr("operational")))}
    \cup Mappings

ResourceJsonResponse ==
    /\ response = Pending
    /\ response' = [fn |-> "resource_json", out |-> _json_response(payload.data)]
    /\ UNCHANGED <<payload, normalizerVars, toolVars, serverVars>>

ResourceErrorResponse ==
    /\ response = Pending
    /\ response' = [fn |-> "resource_error",
                    out |-> BaseResources_error_response(payload.error_message,
                                                         payload.data)]
    /\ UNCHANGED <<payload, normalizerVars, toolVars, serverVars>>

InitResources ==
    /\ payload \in [error_message : ErrorMessages, data : ResourceData]
    /\ response = Pending
    /\ NormalizerIdle
    /\ ToolsIdle
    /\ ServerIdle

NextResources == ResourceJsonResponse \/ ResourceErrorResponse

SpecResources == InitResources /\ [][NextResources]_vars

----------------------------------------------------------------------------
(* The tools as a state machine *)

\* What a collaborator call may raise: the client's own errors (raised by
\* _handle_api_exception and by the endpoints), and exceptions that are not
\* ApiException, which the endpoints let through unwrapped.
CollaboratorErrors ==
    {Exc("PingeraAuthError", "Authentication failed. Check your API key."),
     Exc("PingeraAPIError", "API Error"),
     Exc("ValueError", "validation failed"),
     Exc("MaxRetryError", "Max retries exceeded")}

Raises == {Raised(e) : e \in CollaboratorErrors}

\* A model of the client with a dict() method.
PageModel(id, name) ==
    MkObj("Page", Absent, Absent,
          Items(<<<<"id", PyStr(id)>>, <<"name", PyStr(name)>>>>),
          [k \in {"dict"} |->
              PyMethod(Dict2("id", PyStr(id), "name", PyStr(name)))],
          EmptyMap, FALSE)

\* A response model of the SDK: to_dict() and timestamps, no dict() method.
SdkModel ==
    MkObj("Response",
          [m |-> "returns",
           v |-> Dict2("id", PyStr("r1"),
                       "created_at", PyDatetime("2024-01-01", "00:00:00"))],
          Absent,
          Items(<<<<"id", PyStr("r1")>>,
                  <<"created_at", PyDatetime("2024-01-01", "00:00:00")>>>>),
          EmptyMap, EmptyMap, FALSE)

\* The page list get_pages returns.
PageListOf(l) ==
    MkObj("PageList", Absent, Absent,
          Items(<<<<"pages", PyList(l)>>, <<"total", PyInt(Len(l))>>,
                  <<"page", PyInt(1)>>, <<"per_page", PyInt(20)>>>>),
          EmptyMap, EmptyMap, FALSE)

\* Lists of models a listing call may return, and a response object in
\* place of the list.
ModelLists ==
    {<<>>, <<PageModel("1", "A")>>, <<PageModel("1", "A"), PageModel("2", "B")>>,
     <<PageModel("1", "A"), SdkModel>>}

\* What a call that returns one model may do.
ModelWorlds == Raises \cup {PageModel("1", "A"), SdkModel, PyNone}

\* What a delete call may do.
DeleteWorlds == Raises \cup {PyBool(TRUE), PyBool(FALSE), PyNone}

\* What an API call whose response is formatted by the tool may do.
ResponseWorlds ==
    Raises \cup
    {PageModel("1", "A"), SdkModel, PyNone, PyStr("ok"),
     Dict2("id", PyStr("c1"), "name", PyStr("API")),
     PyList(<<Dict2("id", PyStr("c1"), "name", PyStr("API"))>>),
     MkObj("Response", [m |-> "raises"], Absent, Absent, EmptyMap, EmptyMap, FALSE),
     MkObj("Response", ProbeRaises, Absent, Absent, EmptyMap, EmptyMap, FALSE),
     MkObj("Response", Absent, Absent, Items(<<<<"owner", Nest(0)>>>>),
           EmptyMap, EmptyMap, FALSE)}

PageIds == {"123", "abc"}

OptionalStrings == {PyNone, PyStr(""), PyStr("x")}

OptionalInts == {PyNone, PyInt(2)}

PerPages ==
    {PyNone, PyInt(-1), PyInt(0), PyInt(50), PyInt(100), PyInt(101), PyInt(1000)}

Kwargs == {EmptyMap, [k \in {"name"} |-> PyStr("New")]}

PagesInvocations ==
    {Invocation("list_pages", [page |-> p, per_page |-> pp, status |-> st], w) :
        p \in OptionalInts, pp \in PerPages, st \in {PyNone, PyStr("active")},
        w \in Raises \cup {PageListOf(l) : l \in ModelLists} \cup {SdkModel}}
    \cup {Invocation("get_page_details", [page_id |-> "123"], w) :
            w \in ModelWorlds}
    \cup {Invocation("create_page",
                     [name |-> PyStr("Status"), subdomain |-> sd, domain |-> PyNone,
                      url |-> PyNone, language |-> lg, kwargs |-> kw], w) :
            sd \in OptionalStrings, lg \in {PyNone, PyStr("en")}, kw \in Kwargs,
            w \in ModelWorlds}
    \cup {Invocation("update_page",
                     [page_id |-> id, name |-> nm, subdomain |-> PyNone,
                      domain |-> PyNone, url |-> PyNone, language |-> PyNone,
                      kwargs |-> kw], w) :
            id \in PageIds, nm \in OptionalStrings, kw \in Kwargs, w \in ModelWorlds}
    \cup {Invocation("patch_page", [page_id |-> id, kwargs |-> kw], w) :
            id \in PageIds, kw \in Kwargs, w \in ModelWorlds}
    \cup {Invocation("delete_page", [page_id |-> id], w) :
            id \in PageIds, w \in DeleteWorlds}

ComponentInvocations ==
    {Invocation("list_component_groups", [page_id |-> "123", show_deleted |-> sd], w) :
        sd \in BOOLEAN,
        w \in Raises \cup {PyList(l) : l \in ModelLists} \cup {SdkModel}}
    \cup {Invocation("get_component_details",
                     [page_id |-> "123", component_id |-> "c1"], w) :
            w \in ResponseWorlds}
    \cup {Invocation("create_component",
                     [page_id |-> "123", name |-> PyStr("API"), description |-> d,
                      group |-> g, group_id |-> PyNone,
                      only_show_if_degraded |-> PyNone, position |-> ps,
                      showcase |-> PyNone, status |-> PyNone, kwargs |-> kw], w) :
            d \in OptionalStrings, g \in {PyNone, PyBool(FALSE)},
            ps \in {PyNone, PyInt(0)}, kw \in Kwargs, w \in ModelWorlds}
    \cup {Invocation("update_component",
                     [page_id |-> "123", component_id |-> "c1", name |-> nm,
                      description |-> PyNone, group |-> g, group_id |-> PyNone,
                      only_show_if_degraded |-> PyNone, position |-> PyNone,
                      showcase |-> sc, status |-> PyNone, kwargs |-> kw], w) :
            nm \in OptionalStrings, g \in {PyNone, PyBool(TRUE)},
            sc \in {PyNone, PyBool(FALSE)}, kw \in Kwargs, w \in ModelWorlds}
    \cup {Invocation("patch_component",
                     [page_id |-> "123", component_id |-> "c1", kwargs |-> kw], w) :
            kw \in Kwargs, w \in ModelWorlds}
    \cup {Invocation("delete_component",
                     [page_id |-> "123", component_id |-> "c1"], w) :
            w \in DeleteWorlds}

ApiInvocations ==
    {Invocation("list_heartbeats", [page |-> p, page_size |-> ps, status |-> st], w) :
        p \in OptionalInts, ps \in OptionalInts, st \in {PyNone, PyStr("active")},
        w \in ResponseWorlds}
    \cup {Invocation(tool, [id |-> "hb1"], w) :
            tool \in {"get_heartbeat_details", "get_check_details", "delete_check"},
            w \in ResponseWorlds}
    \cup {Invocation(tool, [id |-> "hb1", heartbeat_data |-> hd], PyNone) :
            tool \in {"create_heartbeat", "update_heartbeat", "delete_heartbeat",
                      "send_heartbeat_ping"},
            hd \in {EmptyDict, Dict2("name", PyStr("cron"), "interval", PyInt(60))}}

Invocations == PagesInvocations \cup ComponentInvocations \cup ApiInvocations

\* The pending invocation is of `tool`.
Invoked(tool) == ret = Pending /\ invocation.tool = tool

\* The invocation ends as r says.
Returns(r) ==
    /\ ret' = r.ret
    /\ calls' = r.calls
    /\ UNCHANGED <<invocation, normalizerVars, envelopeVars, serverVars>>

args == invocation.args

world == invocation.world

ListPages ==
    /\ Invoked("list_pages")
    /\ Returns(list_pages(args.page, args.per_page, args.status, world))

GetPageDetails ==
    /\ Invoked("get_page_details")
    /\ Returns(get_page_details(args.page_id, world))

CreatePage ==
    /\ Invoked("create_page")
    /\ Returns(create_page(args.name, args.subdomain, args.domain, args.url,
                               args.language, args.kwargs, world))

UpdatePage ==
    /\ Invoked("update_page")
    /\ Returns(update_page(args.page_id, args.name, args.subdomain, args.domain,
                               args.url, args.language, args.kwargs, world))

PatchPage ==
    /\ Invoked("patch_page")
    /\ Returns(patch_page(args.page_id, args.kwargs, world))

DeletePage ==
    /\ Invoked("delete_page")
    /\ Returns(delete_page(args.page_id, world))

ListComponentGroups ==
    /\ Invoked("list_component_groups")
    /\ Returns(list_component_groups(args.page_id, args.show_deleted, world))

GetComponentDetails ==
    /\ Invoked("get_component_details")
    /\ Returns(get_component_details(args.page_id, args.component_id, world))

CreateComponent ==
    /\ Invoked("create_component")
    /\ Returns(create_component(args.page_id, args.name, args.description, args.group,
                                    args.group_id, args.only_show_if_degraded,
                                    args.position, args.showcase, args.status,
                                    args.kwargs, world))

UpdateComponent ==
    /\ Invoked("update_component")
    /\ Returns(update_component(args.page_id, args.component_id, args.name,
                                    args.description, args.group, args.group_id,
                                    args.only_show_if_degraded, args.position,
                                    args.showcase, args.status, args.kwargs, world))

PatchComponent ==
    /\ Invoked("patch_component")
    /\ Returns(patch_component(args.page_id, args.component_id, args.kwargs, world))

DeleteComponent ==
    /\ Invoked("delete_component")
    /\ Returns(delete_component(args.page_id, args.component_id, world))

ListHeartbeats ==
    /\ Invoked("list_heartbeats")
    /\ Returns(list_heartbeats(args.page, args.page_size, args.status, world))

GetHeartbeatDetails ==
    /\ Invoked("get_heartbeat_details")
    /\ Returns(get_heartbeat_details(args.id, world))

CreateHeartbeat ==
    /\ Invoked("create_heartbeat")
    /\ Returns(create_heartbeat(args.heartbeat_data))

UpdateHeartbeat ==
    /\ Invoked("update_heartbeat")
    /\ Returns(update_heartbeat(args.id, args.heartbeat_data))

DeleteHeartbeat ==
    /\ Invoked("delete_heartbeat")
    /\ Returns(delete_heartbeat(args.id))

SendHeartbeatPing ==
    /\ Invoked("send_heartbeat_ping")
    /\ Returns(send_heartbeat_ping(args.id))

GetCheckDetails ==
    /\ Invoked("get_check_details")
    /\ Returns(get_check_details(args.id, world))

DeleteCheck ==
    /\ Invoked("delete_check")
    /\ Returns(delete_check(args.id, world))

Init ==
    /\ invocation \in Invocations
    /\ ret = Pending
    /\ calls = <<>>
    /\ NormalizerIdle
    /\ EnvelopeIdle
    /\ ServerIdle

Next ==
    \/ ListPages \/ GetPageDetails \/ CreatePage \/ UpdatePage \/ PatchPage
    \/ DeletePage
    \/ ListComponentGroups \/ GetComponentDetails \/ CreateComponent
    \/ UpdateComponent \/ PatchComponent \/ DeleteComponent
    \/ ListHeartbeats \/ GetHeartbeatDetails \/ CreateHeartbeat
    \/ UpdateHeartbeat \/ DeleteHeartbeat \/ SendHeartbeatPing
    \/ GetCheckDetails \/ DeleteCheck

Spec == Init /\ [][Next]_vars

----------------------------------------------------------------------------
(* Invocations in flight at once *)

(***************************************************************************)
(* The tool methods are coroutines without an await inside: the            *)
(* collaborator calls are synchronous, so on the event loop an invocation, *)
(* once started, runs to its return before another one runs. What the      *)
(* invocations share is the one client object built at mcp_server.py       *)
(* 35-41; a tool object holds nothing but that client and a logger         *)
(* (base.py 15-17). `calls` is here the sequence of calls the shared       *)
(* client has received.                                                    *)
(***************************************************************************)

\* Invocations the server has accepted and not yet answered.
NumTasks == 2

\* What the invocation inv returns and which calls it makes: the tool
\* method the server dispatches to.
ToolResult(inv) ==
    LET a == inv.args
        w == inv.world
    IN  CASE inv.tool = "list_pages" -> list_pages(a.page, a.per_page, a.status, w)
          [] inv.tool = "get_page_details" -> get_page_details(a.page_id, w)
          [] inv.tool = "create_page" ->
                create_page(a.name, a.subdomain, a.domain, a.url, a.language, a.kwargs, w)
          [] inv.tool = "update_page" ->
                update_page(a.page_id, a.name, a.subdomain, a.domain, a.url,
                            a.language, a.kwargs, w)
          [] inv.tool = "patch_page" -> patch_page(a.page_id, a.kwargs, w)
          [] inv.tool = "delete_page" -> delete_page(a.page_id, w)
          [] inv.tool = "list_component_groups" ->
                list_component_groups(a.page_id, a.show_deleted, w)
          [] inv.tool = "get_component_details" ->
                get_component_details(a.page_id, a.component_id, w)
          [] inv.tool = "create_component" ->
                create_component(a.page_id, a.name, a.description, a.group,
                                 a.group_id, a.only_show_if_degraded, a.position,
                                 a.showcase, a.status, a.kwargs, w)
          [] inv.tool = "update_component" ->
                update_component(a.page_id, a.component_id, a.name, a.description,
                                 a.group, a.group_id, a.only_show_if_degraded,
                                 a.position, a.showcase, a.status, a.kwargs, w)
          [] inv.tool = "patch_component" ->
                patch_component(a.page_id, a.component_id, a.kwargs, w)
          [] inv.tool = "delete_component" ->
                delete_component(a.page_id, a.component_id, w)
          [] inv.tool = "list_heartbeats" ->
                list_heartbeats(a.page, a.page_size, a.status, w)
          [] inv.tool = "get_heartbeat_details" -> get_heartbeat_details(a.id, w)
          [] inv.tool = "create_heartbeat" -> create_heartbeat(a.heartbeat_data)
          [] inv.tool = "update_heartbeat" -> update_heartbeat(a.id, a.heartbeat_data)
          [] inv.tool = "delete_heartbeat" -> delete_heartbeat(a.id)
          [] inv.tool = "send_heartbeat_ping" -> send_heartbeat_ping(a.id)
          [] inv.tool = "get_check_details" -> get_check_details(a.id, w)
          [] OTHER -> delete_check(a.id, w)

\* One result field shared by the invocations: the answer of the invocation
\* that returns last replaces the answers already given.
ReturnThroughSharedField(ts, i, r) ==
    [j \in DOMAIN ts |->
        IF j = i \/ ts[j].ret # Pending THEN [ts[j] EXCEPT !.ret = r] ELSE ts[j]]

\* return ...: the text goes to the caller of invocation i and nowhere else.
ReturnTo(ts, i, r) == [ts EXCEPT ![i].ret = r]

\* The invocations that arrive together.
TaskInvocations ==
    {inv \in Invocations :
        \/ inv.tool = "delete_page" /\ inv.args.page_id = "123"
        \/ inv.tool = "delete_component"}

\* Invocation i reaches its collaborator call: the shared client receives
\* the call. The call is synchronous, so the event loop runs ReturnTask of
\* the same invocation next; any other invocation is let in between here,
\* which covers a collaborator that suspends.
CallCollaborator ==
    \E i \in DOMAIN tasks :
        /\ tasks[i].pc = "start"
        /\ tasks' = [tasks EXCEPT ![i].pc = "called"]
        /\ calls' = calls \o ToolResult(tasks[i].invocation).calls
        /\ UNCHANGED <<invocation, ret, normalizerVars, envelopeVars, server, sdk>>

\* Invocation i goes on from the collaborator's outcome to its return.
ReturnTask ==
    \E i \in DOMAIN tasks :
        /\ tasks[i].pc = "called"
        /\ tasks[i].ret = Pending
        /\ tasks' = ReturnTo(tasks, i, ToolResult(tasks[i].invocation).ret)
        /\ UNCHANGED <<invocation, ret, calls, normalizerVars, envelopeVars, server, sdk>>

InitTasks ==
    /\ tasks \in [1..NumTasks ->
                    [invocation : TaskInvocations, pc : {"start"}, ret : {Pending}]]
    /\ server = [mode |-> "none", pc |-> 0, registered |-> {}]
    /\ sdk = [module |-> "none"]
    /\ NormalizerIdle
    /\ EnvelopeIdle
    /\ ToolsIdle

NextTasks ==
    \/ CallCollaborator
    \/ ReturnTask

SpecTasks == InitTasks /\ [][NextTasks]_vars

----------------------------------------------------------------------------
(* The list operations down to the request sent to the external API *)

(***************************************************************************)
(* list_pages goes through PingeraSDKClient.get_pages and                  *)
(* PagesEndpointSDK.list to StatusPagesApi.v1_pages_get; list_checks and   *)
(* list_heartbeats build the keyword arguments of v1_checks_get and        *)
(* v1_heartbeats_get themselves. Here `calls` is the request that reaches  *)
(* the API object; what the tool then makes of the response is the Tools   *)
(* machine above.                                                          *)
(***************************************************************************)

\* value or default, without the substitution: the value as it is.
OrNothing(value, default) == value

\* value or default: the default replaces None and every other falsy value
\* (0 among the integers).
Or(value, default) == IF Truthy(value) THEN value ELSE default

\* PagesEndpointSDK.list: status is not sent.
PagesEndpointSDK_list(page, per_page, status) ==
    Call("v1_pages_get",
         [page |-> Or(page, PyInt(1)), page_size |-> Or(per_page, PyInt(20))])

\* PingeraSDKClient.get_pages
get_pages(page, per_page, status) == PagesEndpointSDK_list(page, per_page, status)

\* ChecksTools.list_checks, the keyword arguments of v1_checks_get: only the
\* parameters that are not None.
list_checks_request(page, page_size, check_type, status) ==
    Call("v1_checks_get",
         NotNone([page |-> page, page_size |-> page_size,
                  type |-> check_type, status |-> status]))

Requested == [t |-> "requested"]

\* list_pages, from the tool to the API request.
RequestPages ==
    /\ Invoked("list_pages")
    /\ calls' = <<get_pages(args.page, ValidatePerPage(args.per_page), args.status)>>
    /\ ret' = Requested
    /\ UNCHANGED <<invocation, normalizerVars, envelopeVars, serverVars>>

\* client.pages.list called directly.
RequestPagesEndpoint ==
    /\ Invoked("pages.list")
    /\ calls' = <<PagesEndpointSDK_list(args.page, args.per_page, args.status)>>
    /\ ret' = Requested
    /\ UNCHANGED <<invocation, normalizerVars, envelopeVars, serverVars>>

RequestChecks ==
    /\ Invoked("list_checks")
    /\ calls' = <<list_checks_request(args.page, args.per_page, PyNone, args.status)>>
    /\ ret' = Requested
    /\ UNCHANGED <<invocation, normalizerVars, envelopeVars, serverVars>>

RequestHeartbeats ==
    /\ Invoked("list_heartbeats")
    /\ calls' = list_heartbeats(args.page, args.per_page, args.status, PyNone).calls
    /\ ret' = Requested
    /\ UNCHANGED <<invocation, normalizerVars, envelopeVars, serverVars>>

\* ComponentEndpointsSDK.get_component_groups: the API method is called with
\* the page id alone.
ComponentEndpointsSDK_get_component_groups(page_id, show_deleted) ==
    Call("v1_pages_page_id_components_get", [page_id |-> page_id])

\* ComponentEndpoints.get_component_groups of pingera/endpoints: the query
\* parameters hold show_deleted when the flag is true.
ComponentEndpoints_get_component_groups(page_id, show_deleted) ==
    Call("_request",
         [method |-> "GET",
          path |-> "/v1/pages/" \o page_id \o "/component-groups",
          params |-> IF show_deleted THEN [k \in {"show_deleted"} |-> TRUE]
                     ELSE EmptyMap])

\* list_component_groups, from the tool through the SDK endpoint to the API
\* request: the call the tool makes, then the request the endpoint makes.
RequestComponentGroups ==
    /\ Invoked("list_component_groups")
    /\ calls' = list_component_groups(args.page_id, args.show_deleted, PyNone).calls
                 \o <<ComponentEndpointsSDK_get_component_groups(
                          args.page_id, args.show_deleted)>>
    /\ ret' = Requested
    /\ UNCHANGED <<invocation, normalizerVars, envelopeVars, serverVars>>

\* get_component_groups of pingera/endpoints called directly.
RequestComponentGroupsEndpoint ==
    /\ Invoked("components.get_component_groups")
    /\ calls' = <<ComponentEndpoints_get_component_groups(
                      args.page_id, args.show_deleted)>>
    /\ ret' = Requested
    /\ UNCHANGED <<invocation, normalizerVars, envelopeVars, serverVars>>

ListOperations == {"list_pages", "pages.list", "list_checks", "list_heartbeats"}

ComponentGroupOperations == {"list_component_groups", "components.get_component_groups"}

PageNumbers == {PyNone, PyInt(0), PyInt(1), PyInt(2)}

InitRequests ==
    /\ invocation \in
          {Invocation(op, [page |-> p, per_page |-> pp, status |-> PyStr("active")], PyNone) :
              op \in ListOperations, p \in PageNumbers, pp \in PerPages}
          \cup {Invocation(op, [page_id |-> id, show_deleted |-> sd], PyNone) :
                  op \in ComponentGroupOperations, id \in {"123", "page123"},
                  sd \in BOOLEAN}
    /\ ret = Pending
    /\ calls = <<>>
    /\ NormalizerIdle
    /\ EnvelopeIdle
    /\ ServerIdle

NextRequests ==
    \/ RequestPages
    \/ RequestPagesEndpoint
    \/ RequestChecks
    \/ RequestHeartbeats
    \/ RequestComponentGroups
    \/ RequestComponentGroupsEndpoint

SpecRequests == InitRequests /\ [][NextRequests]_vars

----------------------------------------------------------------------------
(* find_pages_with_latest_incidents (mcp_server.py) *)

(***************************************************************************)
(* The tool lists the pages with pages_tools.list_pages(), parses the      *)
(* answer and asks incidents_tools.list_incidents for each page. What      *)
(* list_incidents answers for a page id (a JSON text, or an exception) is  *)
(* an input: `incidents` maps page ids to outcomes.                        *)
(***************************************************************************)

DecimalDigits == <<"0", "1", "2", "3", "4", "5", "6", "7", "8", "9">>

RECURSIVE Decimal(_)
\* str(n) for an integer.
Decimal(n) ==
    IF n < 0 THEN "-" \o Decimal(0 - n)
    ELSE IF n < 10 THEN DecimalDigits[n + 1]
    ELSE Decimal(n \div 10) \o DecimalDigits[(n % 10) + 1]

\* str(value) for the values a parsed JSON text holds at a page's id.
Str(v) ==
    CASE v.t = "str" -> v.s
      [] v.t = "int" -> Decimal(v.n)
      [] v.t = "bool" -> IF v.b THEN "True" ELSE "False"
      [] OTHER -> "None"

\* d.get(key, default): AttributeError when d is not a dict.
DictGet(d, key, default) ==
    IF IsRaised(d) THEN d
    ELSE IF d.t # "dict"
    THEN Raised(Exc("AttributeError", "object has no attribute 'get'"))
    ELSE IF key \in DOMAIN d.d THEN d.d[key] ELSE default

\* a or b
PyOr(a, b) == IF Truthy(a) THEN a ELSE b

\* The entry of a page whose incidents could not be fetched (lines 320-326).
IncidentsErrorEntry(page_id, page_name, e) ==
    Dict3("page_id", PyStr(page_id), "page_name", page_name,
          "error", PyStr("Could not fetch incidents: " \o e.msg))

\* Lines 308-316: the latest incident, each field read with get.
LatestIncident(latest) ==
    DictLiteral(<<"id", "name", "status", "impact", "created_at", "updated_at", "body">>,
        [k \in {"id", "name", "status", "impact", "created_at", "updated_at", "body"} |->
            DictGet(latest, k, IF k = "body" THEN PyStr("") ELSE PyNone)])

\* Lines 289-326 for one page: the page's entry. Every exception raised in
\* here is caught by the inner except and gives the error entry.
PageEntry(page, page_id, page_name, incidents_result) ==
    LET incidents_data == IF IsRaised(incidents_result) THEN incidents_result
                          ELSE JsonLoads(incidents_result)
        listed == DictGet(DictGet(incidents_data, "data", EmptyDict), "incidents", PyNone)
        found == IF IsRaised(incidents_data) THEN incidents_data
                 ELSE IF ~Truthy(DictGet(incidents_data, "success", PyNone))
                 THEN PyBool(FALSE)
                 ELSE IF IsRaised(listed) THEN listed
                 ELSE PyBool(Truthy(listed))
        latest_incident ==
            IF IsRaised(found) THEN found
            ELSE IF ~found.b THEN PyNone
            ELSE IF listed.t # "list" THEN Raised(Exc("KeyError", "0"))
            ELSE LatestIncident(listed.l[1])
    IN  IF IsRaised(latest_incident)
        THEN IncidentsErrorEntry(page_id, page_name, latest_incident.e)
        ELSE PyDict([k \in {"page_id", "page_name", "subdomain", "domain", "url",
                            "latest_incident"} |->
                CASE k = "page_id" -> PyStr(page_id)
                  [] k = "page_name" -> page_name
                  [] k = "latest_incident" -> latest_incident
                  [] OTHER -> DictGet(page, k, PyStr(""))])

\* What list_incidents answers for page_id: a page the input says nothing
\* about has no incidents.
IncidentsFor(incidents, page_id) ==
    IF page_id \in DOMAIN incidents THEN incidents[page_id]
    ELSE _success_response(PyDict([k \in {"incidents"} |-> PyList(<<>>)]))

\* The body of the loop without lines 285-286: a page without an id is asked
\* about and listed like the others.
PageStepWithoutIdCheck(page, incidents, acc) ==
    IF page.t # "dict"
    THEN Raised(Exc("AttributeError", "object has no attribute 'get'"))
    ELSE LET page_id == Str(PyOr(DictGet(page, "id", PyNone),
                                 DictGet(page, "page_id", PyStr(""))))
             page_name == DictGet(page, "name", PyStr("Unknown"))
         IN  [results |-> Append(acc.results,
                             PageEntry(page, page_id, page_name,
                                       IncidentsFor(incidents, page_id))),
              requests |-> Append(acc.requests,
                              Call("list_incidents",
                                   [page_id |-> page_id, page |-> 1, per_page |-> 1]))]

\* Lines 282-326, the body of `for page in pages`: a page without an id is
\* passed over, any other page is asked about and gets its entry. page.get
\* on a page that is not a dict raises outside the inner try.
PageStep(page, incidents, acc) ==
    IF page.t # "dict"
    THEN Raised(Exc("AttributeError", "object has no attribute 'get'"))
    ELSE LET page_id == Str(PyOr(DictGet(page, "id", PyNone),
                                 DictGet(page, "page_id", PyStr(""))))
             page_name == DictGet(page, "name", PyStr("Unknown"))
         IN  IF page_id = "" THEN acc
             ELSE [results |-> Append(acc.results,
                                 PageEntry(page, page_id, page_name,
                                           IncidentsFor(incidents, page_id))),
                   requests |-> Append(acc.requests,
                                  Call("list_incidents",
                                       [page_id |-> page_id, page |-> 1,
                                        per_page |-> 1]))]

\* Line 281: for page in pages, from page i on.
RECURSIVE PagesLoop(_, _, _, _)
PagesLoop(pages, i, incidents, acc) ==
    IF i > Len(pages) THEN acc
    ELSE LET next == PageStep(pages[i], incidents, acc)
         IN  IF IsRaised(next) THEN next
             ELSE PagesLoop(pages, i + 1, incidents, next)

\* No outer except: the exception leaves the tool.
FindPagesRaising(e) == Raised(e)

\* Lines 337-342: the outer except.
FindPagesFailure(e) ==
    JsonDumps(Dict3("success", PyBool(FALSE),
                    "error", PyStr("Error finding pages and incidents: " \o e.msg),
                    "data", PyNone), FALSE)

\* Lines 328-335
FindPagesSuccess(results) ==
    JsonDumps(Dict3("success", PyBool(TRUE),
                    "message", PyStr("Found " \o Decimal(Len(results))
                                     \o " pages with incident information"),
                    "data", Dict2("pages_with_incidents", PyList(results),
                                  "total_pages", PyInt(Len(results)))), FALSE)

\* find_pages_with_latest_incidents: get_pages_outcome is what the
\* collaborator of list_pages does, incidents what list_incidents answers for
\* each page id.
find_pages_with_latest_incidents(get_pages_outcome, incidents) ==
    LET listing == list_pages(PyNone, PyNone, PyNone, get_pages_outcome)
        pages_result == listing.ret
        pages_data == IF IsRaised(pages_result) THEN pages_result
                      ELSE JsonLoads(pages_result)
        listed == DictGet(DictGet(pages_data, "data", EmptyDict), "pages", PyNone)
        nothing == IF IsRaised(pages_data) THEN pages_data
                   ELSE IF ~Truthy(DictGet(pages_data, "success", PyNone))
                   THEN PyBool(TRUE)
                   ELSE IF IsRaised(listed) THEN listed
                   ELSE PyBool(~Truthy(listed))
        loop == IF listed.t # "list" THEN Raised(Exc("AttributeError", "page"))
                ELSE PagesLoop(listed.l, 1, incidents,
                               [results |-> <<>>, requests |-> <<>>])
    IN  IF IsRaised(nothing)
        THEN [ret |-> FindPagesFailure(nothing.e), calls |-> listing.calls]
        ELSE IF nothing.b
        THEN [ret |-> pages_result, calls |-> listing.calls]
        ELSE IF IsRaised(loop)
        THEN [ret |-> FindPagesFailure(loop.e), calls |-> listing.calls]
        ELSE [ret |-> FindPagesSuccess(loop.results),
              calls |-> listing.calls \o loop.requests]

\* Pages as the collaborator lists them: with an id, with an empty id and
\* with no id.
ListedPages ==
    {PageModel("1", "A"), PageModel("2", "B"), PageModel("", "C"),
     MkObj("Page", Absent, Absent, Items(<<<<"name", PyStr("D")>>>>),
           [k \in {"dict"} |-> PyMethod(Dict2("id", PyNone, "name", PyStr("D")))],
           EmptyMap, FALSE)}

\* What list_incidents may answer for a page.
IncidentOutcomes ==
    {Raised(Exc("MaxRetryError", "Max retries exceeded")),
     _success_response(PyDict([k \in {"incidents"} |->
         PyList(<<Dict3("id", PyStr("i1"), "name", PyStr("Outage"),
                        "status", PyStr("investigating"))>>)])),
     _success_response(PyDict([k \in {"incidents"} |-> PyList(<<>>)])),
     _success_response(PyNone),
     _error_response(PyStr("API Error"), PyNone)}

FindPages ==
    /\ Invoked("find_pages_with_latest_incidents")
    /\ Returns(find_pages_with_latest_incidents(world, args.incidents))

InitFindPages ==
    /\ invocation \in
          {Invocation("find_pages_with_latest_incidents", [incidents |-> inc], w) :
              inc \in [{"1", "2"} -> IncidentOutcomes],
              w \in Raises \cup {SdkModel, PyNone}
                    \cup {PageListOf(l) : l \in {<<>>} \cup {<<p>> : p \in ListedPages}
                             \cup {<<p, q>> : p \in ListedPages, q \in ListedPages}}}
    /\ ret = Pending
    /\ calls = <<>>
    /\ NormalizerIdle
    /\ EnvelopeIdle
    /\ ServerIdle

NextFindPages == FindPages

SpecFindPages == InitFindPages /\ [][NextFindPages]_vars

----------------------------------------------------------------------------
(* How a failure of the external API leaves the clients *)

(***************************************************************************)
(* Three places turn a failure into an exception:                          *)
(* PingeraSDKClient._handle_api_exception, the except clause of every SDK  *)
(* endpoint method that calls it, and PingeraClient._make_request of       *)
(* pingera/client.py. The status of the response, or the exception of the  *)
(* transport, is the input.                                                *)
(***************************************************************************)

\* The ApiException the SDK raises for a response with this status.
ApiException(status, reason) ==
    [t |-> "raised",
     e |-> [t |-> "exc", cls |-> "ApiException", msg |-> reason,
            status |-> status, reason |-> reason]]

\* _handle_api_exception with the exception logged and not raised: the
\* method returns None.
HandleApiExceptionQuietly(e) == PyNone

\* PingeraSDKClient._handle_api_exception
_handle_api_exception(e) ==
    IF e.status = 401
    THEN Raised(Exc("PingeraAuthError", "Authentication failed. Check your API key."))
    ELSE IF e.status = 408
    THEN Raised(Exc("PingeraTimeoutError", "Request timed out"))
    ELSE IF e.status >= 500
    THEN Raised(Exc("PingeraConnectionError", "Server error: " \o e.reason))
    ELSE Raised(Exc("PingeraAPIError", "API error: " \o e.reason))

\* An SDK endpoint method (PagesEndpointSDK.get, .create, .delete, ...): the
\* API call inside try, `except ApiException as e:
\* self.client._handle_api_exception(e)` and nothing after it, so the method
\* returns None should the handler return. Any other exception passes.
SdkEndpointMethod(op, outcome) ==
    IF IsRaised(outcome) /\ outcome.e.cls = "ApiException"
    THEN LET handled == _handle_api_exception(outcome.e)
         IN  IF IsRaised(handled) THEN handled ELSE PyNone
    ELSE IF IsRaised(outcome) THEN outcome
    ELSE IF op = "pages.delete" THEN PyBool(TRUE)
    ELSE outcome

\* A response of the HTTP session: json is what response.json() gives, a
\* value or the ValueError of a body that is not JSON.
HttpResponse(status_code, json) ==
    [t |-> "response", status_code |-> status_code, json |-> json]

\* PingeraClient._make_request (pingera/client.py): transport is the
\* exception session.request raised, or "none".
_make_request(transport, http_response) ==
    CASE transport = "ConnectTimeout" ->
            Raised(Exc("PingeraTimeoutError", "Request timed out after 30 seconds"))
      [] transport = "ConnectionError" ->
            Raised(Exc("PingeraConnectionError", "Connection error: refused"))
      [] transport = "RequestException" ->
            Raised(Exc("PingeraAPIError", "Request failed: invalid URL"))
      [] OTHER ->
            IF http_response.status_code = 401
            THEN Raised(Exc("PingeraAuthError",
                            "Authentication failed. Check your API key."))
            ELSE IF http_response.status_code >= 400
            THEN LET default == PyStr("API error: " \o Decimal(http_response.status_code))
                     message == IF IsRaised(http_response.json) THEN default
                                ELSE DictGet(http_response.json, "message", default)
                 IN  IF IsRaised(message) THEN message
                     ELSE Raised(Exc("PingeraAPIError", Str(message)))
            ELSE http_response

Statuses == {0, 200, 201, 204, 302, 399, 400, 401, 403, 404, 408, 429, 499, 500, 502, 599}

Reasons == {"Not Found", "Internal Server Error"}

\* What response.json() may give for an error body.
ErrorBodies ==
    {PyDict([k \in {"message"} |-> PyStr("Page not found")]), EmptyDict,
     PyList(<<>>), Raised(Exc("ValueError", "Expecting value"))}

HandleApiException ==
    /\ Invoked("_handle_api_exception")
    /\ ret' = _handle_api_exception(world.e)
    /\ UNCHANGED <<invocation, calls, normalizerVars, envelopeVars, serverVars>>

CallSdkEndpoint ==
    /\ Invoked("sdk_endpoint")
    /\ ret' = SdkEndpointMethod(args.op, world)
    /\ UNCHANGED <<invocation, calls, normalizerVars, envelopeVars, serverVars>>

MakeRequest ==
    /\ Invoked("_make_request")
    /\ ret' = _make_request(args.transport, world)
    /\ UNCHANGED <<invocation, calls, normalizerVars, envelopeVars, serverVars>>

InitFailures ==
    /\ invocation \in
          {Invocation("_handle_api_exception", EmptyMap, ApiException(s, r)) :
              s \in Statuses, r \in Reasons}
          \cup {Invocation("sdk_endpoint", [op |-> op], w) :
                  op \in {"pages.get", "pages.delete"},
                  w \in {ApiException(s, "Not Found") : s \in Statuses}
                        \cup {SdkModel, Raised(Exc("MaxRetryError", "Max retries exceeded"))}}
          \cup {Invocation("_make_request", [transport |-> "none"], HttpResponse(s, b)) :
                  s \in Statuses, b \in ErrorBodies}
          \cup {Invocation("_make_request", [transport |-> tr], HttpResponse(0, EmptyDict)) :
                  tr \in {"ConnectTimeout", "ConnectionError", "RequestException"}}
    /\ ret = Pending
    /\ calls = <<>>
    /\ NormalizerIdle
    /\ EnvelopeIdle
    /\ ServerIdle

NextFailures ==
    \/ HandleApiException
    \/ CallSdkEndpoint
    \/ MakeRequest

SpecFailures == InitFailures /\ [][NextFailures]_vars

----------------------------------------------------------------------------
(* get_component of the SDK client, and the tool on top of it *)

\* A component as the components API lists it.
ComponentModel(id, name) ==
    MkObj("Component",
          [m |-> "returns", v |-> Dict2("id", PyStr(id), "name", PyStr(name))],
          Absent,
          Items(<<<<"id", PyStr(id)>>, <<"name", PyStr(name)>>>>),
          EmptyMap, EmptyMap, FALSE)

\* The response of v1_pages_page_id_components_get with this data member.
ComponentsResponse(data) ==
    MkObj("ComponentList", Absent, Absent, Items(<<<<"data", data>>>>),
          EmptyMap, EmptyMap, FALSE)

\* The message of the error get_component raises when nothing matched.
ComponentNotFound(component_id) ==
    Raised(Exc("PingeraAPIError", "Component " \o component_id \o " not found"))

\* The search loop returning the last component with the id, not the first.
LastWithId(data, component_id) ==
    LET matches == {i \in 1..Len(data) : GetAttr(data[i], "id") = PyStr(component_id)}
    IN  IF matches = {} THEN ComponentNotFound(component_id)
        ELSE data[CHOOSE i \in matches : \A j \in matches : j <= i]

\* for comp in components_response.data: if comp.id == component_id:
\* return comp; and the raise after the loop.
FirstWithId(data, component_id) ==
    LET matches == {i \in 1..Len(data) : GetAttr(data[i], "id") = PyStr(component_id)}
    IN  IF matches = {} THEN ComponentNotFound(component_id)
        ELSE data[CHOOSE i \in matches : \A j \in matches : i <= j]

\* ComponentEndpointsSDK.get_component: components_response is what
\* v1_pages_page_id_components_get answered or raised.
ComponentEndpointsSDK_get_component(page_id, component_id, components_response) ==
    IF IsRaised(components_response)
    THEN SdkEndpointMethod("components.get_component", components_response)
    ELSE IF HasAttr(components_response, "data")
            /\ Truthy(GetAttr(components_response, "data"))
    THEN FirstWithId(GetAttr(components_response, "data").l, component_id)
    ELSE ComponentNotFound(component_id)

\* Listings of the components API: up to two components, two of which
\* share the id c1, a listing with data None, one with no data member,
\* and the API refusing.
Components ==
    {ComponentModel("c1", "API"), ComponentModel("c1", "API copy"),
     ComponentModel("c2", "Web")}

ComponentListings ==
    {ComponentsResponse(PyList(l)) :
        l \in {<<>>} \cup {<<a>> : a \in Components}
              \cup {<<a, b>> : a \in Components, b \in Components}}
    \cup {ComponentsResponse(PyNone), OpaqueObject,
          ApiException(404, "Not Found"), ApiException(500, "Internal Server Error")}

GetComponent ==
    /\ Invoked("components.get_component")
    /\ ret' = ComponentEndpointsSDK_get_component(args.page_id, args.component_id, world)
    /\ calls' = <<Call("v1_pages_page_id_components_get", [page_id |-> args.page_id])>>
    /\ UNCHANGED <<invocation, normalizerVars, envelopeVars, serverVars>>

GetComponentDetailsOfListing ==
    /\ Invoked("get_component_details")
    /\ LET component ==
               ComponentEndpointsSDK_get_component(args.page_id, args.component_id, world)
           out == get_component_details(args.page_id, args.component_id, component)
       IN  /\ ret' = out.ret
           /\ calls' = out.calls \o
                  <<Call("v1_pages_page_id_components_get", [page_id |-> args.page_id])>>
    /\ UNCHANGED <<invocation, normalizerVars, envelopeVars, serverVars>>

InitComponents ==
    /\ invocation \in
          {Invocation(tool, [page_id |-> "123", component_id |-> c], w) :
              tool \in {"components.get_component", "get_component_details"},
              c \in {"c1", "c2", "c9"}, w \in ComponentListings}
    /\ ret = Pending
    /\ calls = <<>>
    /\ NormalizerIdle
    /\ EnvelopeIdle
    /\ ServerIdle

NextComponents ==
    \/ GetComponent
    \/ GetComponentDetailsOfListing

SpecComponents == InitComponents /\ [][NextComponents]_vars

----------------------------------------------------------------------------
(* The start-up of the server: what mcp_server.py registers *)

\* The resources registered at lines 57-67.
RegisteredResources ==
    <<"pingera://pages", "pingera://pages/{page_id}", "pingera://status">>

\* The tools registered outside any condition, lines 70-266, in order.
UnconditionalTools ==
    <<"list_pages", "get_page_details", "test_pingera_connection",
      "list_component_groups", "get_component_details", "list_checks",
      "get_check_details", "get_check_results", "get_check_statistics",
      "list_check_jobs", "get_check_job_details", "get_unified_results",
      "get_unified_statistics", "execute_custom_check", "execute_existing_check",
      "get_on_demand_job_status", "list_on_demand_checks", "list_alerts",
      "get_alert_details", "get_alert_statistics", "list_alert_channels",
      "list_alert_rules", "list_heartbeats", "get_heartbeat_details",
      "create_heartbeat", "update_heartbeat", "delete_heartbeat",
      "send_heartbeat_ping", "get_heartbeat_logs", "list_incidents",
      "get_incident_details", "get_incident_updates",
      "get_incident_update_details", "find_pages_with_latest_incidents">>

\* The tools registered under `if config.is_read_write():`, lines 346-478.
WriteTools ==
    <<"create_page", "update_page", "patch_page", "delete_page",
      "create_component", "update_component", "patch_component",
      "delete_component", "create_check", "update_check", "delete_check",
      "pause_check", "resume_check", "create_alert", "update_alert",
      "delete_alert", "create_incident", "update_incident", "delete_incident",
      "add_incident_update", "update_incident_update", "delete_incident_update">>

\* Positions of the start-up: 0 before the API key is validated, then one
\* per registration; Failed when the key is missing.
AfterKey == 1

AfterResources == AfterKey + Len(RegisteredResources)

AfterUnconditional == AfterResources + Len(UnconditionalTools)

Started == AfterUnconditional + Len(WriteTools)

Failed == Started + 1

\* if not config.api_key: raise ValueError (lines 26-28)
ValidateApiKey ==
    /\ server.pc = 0
    /\ server' = [server EXCEPT !.pc = IF server.api_key THEN AfterKey ELSE Failed]
    /\ UNCHANGED <<normalizerVars, envelopeVars, toolVars, tasks, sdk>>

\* @mcp.resource(...)
RegisterResource ==
    /\ server.pc >= AfterKey
    /\ server.pc < AfterResources
    /\ server' = [server EXCEPT
                     !.pc = @ + 1,
                     !.registered = @ \cup {RegisteredResources[server.pc - AfterKey + 1]}]
    /\ UNCHANGED <<normalizerVars, envelopeVars, toolVars, tasks, sdk>>

\* @mcp.tool() outside the condition
RegisterTool ==
    /\ server.pc >= AfterResources
    /\ server.pc < AfterUnconditional
    /\ server' = [server EXCEPT
                     !.pc = @ + 1,
                     !.registered = @ \cup {UnconditionalTools[server.pc - AfterResources + 1]}]
    /\ UNCHANGED <<normalizerVars, envelopeVars, toolVars, tasks, sdk>>

\* if config.is_read_write(): not taken
SkipWriteTools ==
    /\ server.pc = AfterUnconditional
    /\ server.mode # "read_write"
    /\ server' = [server EXCEPT !.pc = Started]
    /\ UNCHANGED <<normalizerVars, envelopeVars, toolVars, tasks, sdk>>

\* @mcp.tool() under the condition
RegisterWriteTool ==
    /\ server.pc >= AfterUnconditional
    /\ server.pc < Started
    /\ server.mode = "read_write"
    /\ server' = [server EXCEPT
                     !.pc = @ + 1,
                     !.registered = @ \cup {WriteTools[server.pc - AfterUnconditional + 1]}]
    /\ UNCHANGED <<normalizerVars, envelopeVars, toolVars, tasks, sdk>>

InitServer ==
    /\ server \in [mode : {"read_only", "read_write"}, api_key : BOOLEAN,
                   pc : {0}, registered : {{}}]
    /\ tasks = <<>>
    /\ sdk = [module |-> "none"]
    /\ NormalizerIdle
    /\ EnvelopeIdle
    /\ ToolsIdle

NextServer ==
    \/ ValidateApiKey \/ RegisterResource \/ RegisterTool \/ SkipWriteTools
    \/ RegisterWriteTool

SpecServer == InitServer /\ [][NextServer]_vars

----------------------------------------------------------------------------
(* The SDK client wrappers and their API client contexts *)

(***************************************************************************)
(* Two files define PingeraSDKClient and its endpoints. In                 *)
(* pingera_mcp/sdk_client.py every operation wraps its API call in         *)
(* `with ApiClient(self.client.configuration) as api_client:`; in          *)
(* pingera/sdk_client.py __init__ builds one ApiClient and the API objects *)
(* on top of it, and the operations call those objects. `sdk` holds which  *)
(* of the two classes was constructed, the contexts built so far and the   *)
(* operations under way; an operation is split at its API call, whose      *)
(* outcome (a response or an ApiException) is the operation's input.       *)
(***************************************************************************)

\* Operations under way on one client.
MaxOps == 2

SdkModules == {"pingera_mcp", "pingera"}

\* The operations of each file that the model follows.
EndpointOperations(module) ==
    IF module = "pingera_mcp"
    THEN {"test_connection", "pages.list", "pages.delete",
          "components.get_component_groups"}
    ELSE {"test_connection", "pages.list", "components.get_component_groups"}

\* with ApiClient(self.client.configuration) as api_client:
OpensContext(module, op) == module = "pingera_mcp"

\* self.checks_api / self.client.components_api: the API objects built in
\* __init__ on self.api_client.
UsesSharedClient(module, op) ==
    module = "pingera" /\ op \in {"test_connection", "components.get_component_groups"}

\* ApiClient(configuration): a context, open until its __exit__.
NewContext == [open |-> TRUE, users |-> {}]

\* PingeraSDKClient.__init__: self.api_client.
InitialContexts(module) ==
    IF module = "pingera" THEN <<NewContext>> ELSE <<>>

\* ApiClient.__exit__: at the end of a with block, on return and on raise.
\* An operation that entered no with block closes nothing.
Exit(contexts, module, op, ctx) ==
    IF OpensContext(module, op) THEN [contexts EXCEPT ![ctx].open = FALSE]
    ELSE contexts

\* What the caller of the operation gets when the API call raised
\* ApiException: test_connection answers False, an endpoint raises the
\* exception _handle_api_exception builds.
OnApiException(op) == IF op = "test_connection" THEN "False" ELSE "raised"

\* What the caller gets when the API call returned.
OnResponse(op) ==
    IF op \in {"test_connection", "pages.delete"} THEN "True" ELSE "response"

OpStart(i) == sdk.ops[i].pc = "start"

\* The operation enters its with block: a context of its own.
EnterContext ==
    \E i \in DOMAIN sdk.ops :
        /\ OpStart(i)
        /\ OpensContext(sdk.module, sdk.ops[i].op)
        /\ sdk' = [sdk EXCEPT
                     !.contexts = Append(@, [NewContext EXCEPT !.users = {i}]),
                     !.ops[i].ctx = Len(sdk.contexts) + 1,
                     !.ops[i].pc = "in_call"]
        /\ UNCHANGED <<normalizerVars, envelopeVars, toolVars, server, tasks>>

\* The operation calls an API object built in __init__: the client's one
\* context.
UseSharedClient ==
    \E i \in DOMAIN sdk.ops :
        /\ OpStart(i)
        /\ UsesSharedClient(sdk.module, sdk.ops[i].op)
        /\ sdk' = [sdk EXCEPT
                     !.contexts[1].users = @ \cup {i},
                     !.ops[i].ctx = 1,
                     !.ops[i].pc = "in_call"]
        /\ UNCHANGED <<normalizerVars, envelopeVars, toolVars, server, tasks>>

\* pingera/sdk_client.py, PagesEndpointSDK.list: a literal is returned, no
\* API call is made.
AnswerWithoutCall ==
    \E i \in DOMAIN sdk.ops :
        /\ OpStart(i)
        /\ ~OpensContext(sdk.module, sdk.ops[i].op)
        /\ ~UsesSharedClient(sdk.module, sdk.ops[i].op)
        /\ sdk' = [sdk EXCEPT !.ops[i].pc = "done", !.ops[i].result = "literal"]
        /\ UNCHANGED <<normalizerVars, envelopeVars, toolVars, server, tasks>>

\* The API call returns and the operation returns its answer.
ApiCallReturns ==
    \E i \in DOMAIN sdk.ops :
        /\ sdk.ops[i].pc = "in_call"
        /\ sdk.ops[i].outcome = "response"
        /\ sdk' = [sdk EXCEPT
                     !.contexts = Exit(@, sdk.module, sdk.ops[i].op, sdk.ops[i].ctx),
                     !.ops[i].pc = "done",
                     !.ops[i].result = OnResponse(sdk.ops[i].op)]
        /\ UNCHANGED <<normalizerVars, envelopeVars, toolVars, server, tasks>>

\* The API call raises ApiException and the operation handles it.
ApiCallRaises ==
    \E i \in DOMAIN sdk.ops :
        /\ sdk.ops[i].pc = "in_call"
        /\ sdk.ops[i].outcome = "ApiException"
        /\ sdk' = [sdk EXCEPT
                     !.contexts = Exit(@, sdk.module, sdk.ops[i].op, sdk.ops[i].ctx),
                     !.ops[i].pc = "done",
                     !.ops[i].result = OnApiException(sdk.ops[i].op)]
        /\ UNCHANGED <<normalizerVars, envelopeVars, toolVars, server, tasks>>

InitContexts ==
    /\ \E module \in SdkModules :
          \E ops \in [1..MaxOps ->
                        [op : EndpointOperations(module),
                         outcome : {"response", "ApiException"},
                         pc : {"start"}, ctx : {0}, result : {"none"}]] :
              sdk = [module |-> module,
                     contexts |-> InitialContexts(module),
                     ops |-> ops]
    /\ server = [mode |-> "none", pc |-> 0, registered |-> {}]
    /\ tasks = <<>>
    /\ NormalizerIdle
    /\ EnvelopeIdle
    /\ ToolsIdle

NextContexts ==
    \/ EnterContext
    \/ UseSharedClient
    \/ AnswerWithoutCall
    \/ ApiCallReturns
    \/ ApiCallRaises

SpecContexts == InitContexts /\ [][NextContexts]_vars

----------------------------------------------------------------------------
(* Claims about the Normalizer *)

\* The Normalizer has run on obj and returned (not raised).
Returned == converted # Pending /\ ~IsRaised(converted)

\* A value json.dumps encodes without a default.
JsonSerializable(v) == ~IsRaised(JsonDumps(v, FALSE))

\* The object the strategies see for the argument v.
AsObject(v) == IF v.t = "obj" THEN v ELSE BuiltinAsObject(v)

\* Every extraction strategy, run on its own, yields nothing for o.
NothingExtracted(o) ==
    /\ Strategy1(o, EmptyMap) = EmptyMap
    /\ Strategy2(o, EmptyMap) = EmptyMap
    /\ Strategy3(o, EmptyMap) = EmptyMap
    /\ Strategy4(o, EmptyMap) = EmptyMap
    /\ Strategy5(o, EmptyMap) = EmptyMap

\* Keys that contain "id", among the keys the model uses.
IdBearing(k) == k \in {"id", "page_id", "component_id", "organization_id", "check_id"}

\* C3: the Normalizer is total: for any input it returns a JSON-serializable
\* mapping or sequence of mappings and never raises, also when the
\* capability probes themselves raise.
C3_NormalizerTotal ==
    converted # Pending =>
        /\ ~IsRaised(converted)
        /\ converted.t \in {"dict", "list"}
        /\ JsonSerializable(converted)

\* C4: a mapping is returned with the same keys and values, and normalizing
\* the result of a normalization that gave a mapping changes nothing.
C4_MappingsUnchanged ==
    /\ (converted # Pending /\ obj.t = "dict") => converted = obj
    /\ (Returned /\ converted.t = "dict") =>
           _convert_sdk_object_to_dict(converted) = converted

\* A mapping with a private key has been normalized.
C4_Witness ==
    /\ Returned
    /\ obj.t = "dict"
    /\ "_internal_cache" \in DOMAIN obj.d
    /\ "_internal_cache" \in DOMAIN converted.d

\* C5: a sequence of n objects is normalized to the sequence of the n
\* normalizations, in order.
C5_SequencesElementwise ==
    (converted # Pending /\ obj.t = "list") =>
        /\ ~IsRaised(converted)
        /\ converted.t = "list"
        /\ Len(converted.l) = Len(obj.l)
        /\ \A i \in 1..Len(obj.l) :
               converted.l[i] = _convert_sdk_object_to_dict(obj.l[i])

C7_IdentifierPreserved ==
    (Returned /\ obj.t = "obj" /\ HasAttr(obj, "id") /\ GetAttr(obj, "id") # PyNone) =>
        \E k \in DOMAIN converted.d :
            IdBearing(k) /\ converted.d[k] = GetAttr(obj, "id")

\* C8: the result holds no private key of the object: no underscore name from
\* its instance attributes or from its to_dict() result.
C8_NoInternalLeakage ==
    (Returned /\ obj.t = "obj") =>
        \A k \in DOMAIN converted.d :
            StartsWithUnderscore(k) =>
                /\ k \notin PairKeys(InstItems(obj))
                /\ ~(obj.td.m = "returns" /\ obj.td.v.t = "dict"
                        /\ k \in DOMAIN obj.td.v.d)

----------------------------------------------------------------------------
(* Claims about the envelope builders *)

RECURSIVE Rendered(_)
\* data as JSON can carry it: values of no JSON type become their str().
Rendered(v) ==
    CASE v.t \in {"none", "bool", "int", "str"} -> v
      [] v.t = "dict" -> PyDict([k \in DOMAIN v.d |-> Rendered(v.d[k])])
      [] v.t = "list" -> PyList([i \in 1..Len(v.l) |-> Rendered(v.l[i])])
      [] OTHER -> PyStr(StrOf(v))

SucceededWith(r) == r # Pending /\ r.fn = "success"

\* C10 as stated: _success_response returns text that parses to
\* {success: true, data: data} with data verbatim, for every data value.
C10_SuccessDataVerbatim ==
    SucceededWith(response) =>
        /\ ~IsRaised(response.out)
        /\ JsonLoads(response.out) = Dict2("success", PyBool(TRUE), "data", payload.data)

\* C10 as amended: the text parses to exactly {success: true, data: d} where
\* d is data with every value that has no JSON type replaced by its str();
\* data that is JSON-representable is preserved verbatim, and the
\* extraction-failed mapping is wrapped with success true like any other.
C10_SuccessDataRendered ==
    SucceededWith(response) =>
        /\ ~IsRaised(response.out)
        /\ JsonLoads(response.out) =
               Dict2("success", PyBool(TRUE), "data", Rendered(payload.data))
        /\ JsonSerializable(payload.data) =>
               JsonLoads(response.out).d["data"] = payload.data

\* The extraction-failed mapping was wrapped with success true.
C10_Witness ==
    /\ SucceededWith(response)
    /\ payload.data = ExtractionFailed("Opaque")
    /\ JsonLoads(response.out).d["success"] = PyBool(TRUE)
    /\ JsonLoads(response.out).d["data"] = payload.data

----------------------------------------------------------------------------
(* Claims about the tools *)

\* The invocation is over: the tool returned or an exception left it.
Finished == ret # Pending

\* text is one of the two envelopes: exactly {success: true, data} or
\* exactly {success: false, error: <string>, data}.
IsEnvelope(text) ==
    /\ text.j = "object"
    /\ \/ /\ DOMAIN text.m = {"success", "data"}
          /\ text.m["success"] = JBool(TRUE)
       \/ /\ DOMAIN text.m = {"success", "error", "data"}
          /\ text.m["success"] = JBool(FALSE)
          /\ text.m["error"].j = "string"

\* text is the Failure envelope whose error is message.
IsFailureOf(text, message) ==
    /\ IsEnvelope(text)
    /\ text.m["success"] = JBool(FALSE)
    /\ text.m["error"] = JString(message)

\* C1 as stated: every string a tool returns, on success and on every
\* failure path, parses to exactly {success: true, data} or exactly
\* {success: false, error: <string>, data}, and to no other key set.
C1_EveryReturnIsEnvelope ==
    (Finished /\ ~IsRaised(ret)) => IsEnvelope(ret)

\* C2 as stated: no exception leaves a tool, and when the collaborator call
\* raised, the tool returned the Failure envelope whose error is str() of
\* that exception.
C2_ExceptionsBecomeFailures ==
    Finished =>
        /\ ~IsRaised(ret)
        /\ IsRaised(world) /\ calls # <<>> => IsFailureOf(ret, world.e.msg)

----------------------------------------------------------------------------
(* Claims about _error_response *)

\* The data values the tools pass to _error_response: None (pages.py 76,
\* components.py 89, checks.py 93, ...) and the two empty listings
\* (pages.py 56, components.py 48).
ToolErrorData ==
    {PyNone, Dict2("pages", PyList(<<>>), "total", PyInt(0)),
     Dict2("component_groups", PyList(<<>>), "total", PyInt(0))}

FailedWith(r) == r # Pending /\ r.fn = "error"

\* C11: for every error message and every data value a tool passes,
\* _error_response does not raise and returns text that parses to exactly
\* {success: false, error: the message, data: the data}, data being null
\* when the tool passes none.
C11_ErrorResponseShape ==
    (FailedWith(response) /\ payload.data \in ToolErrorData) =>
        /\ ~IsRaised(response.out)
        /\ JsonLoads(response.out) =
               Dict3("success", PyBool(FALSE), "error", payload.error_message,
                     "data", payload.data)

\* _error_response was called with the empty page listing and with None.
C11_Witness ==
    /\ FailedWith(response)
    /\ payload.data = Dict2("pages", PyList(<<>>), "total", PyInt(0))
    /\ payload.error_message = PyStr("API Error")
    /\ JsonLoads(response.out).d["data"] = payload.data

----------------------------------------------------------------------------
(* Claims about the tools' error handling *)

\* The collaborator was called and raised an exception of class cls.
CollaboratorRaised(cls) ==
    /\ Finished
    /\ calls # <<>>
    /\ IsRaised(world)
    /\ world.e.cls = cls

\* The data a tool gives its Failure envelope when the collaborator raises.
FailureData(tool) ==
    IF tool = "list_pages" THEN Dict2("pages", PyList(<<>>), "total", PyInt(0))
    ELSE IF tool = "list_component_groups"
    THEN Dict2("component_groups", PyList(<<>>), "total", PyInt(0))
    ELSE PyNone

InvalidPageId ==
    /\ Finished
    /\ invocation.tool \in {"update_page", "patch_page", "delete_page"}
    /\ args.page_id \notin IntStrings

\* patch_page ran with no field to update.
PatchWithoutFields == invocation.tool = "patch_page" /\ args.kwargs = EmptyMap

\* ret is exactly the Failure envelope {success: false, error: message,
\* data: null}.
FailureWithNull(message) ==
    /\ ~IsRaised(ret)
    /\ JsonLoads(ret) =
           Dict3("success", PyBool(FALSE), "error", PyStr(message), "data", PyNone)

\* C13 as stated: update_page, patch_page and delete_page with a page_id
\* that is not an integer string return the Failure envelope 'Invalid page
\* ID: <page_id>' with data null, and make no collaborator call.
C13_InvalidPageIdRejected ==
    InvalidPageId =>
        /\ FailureWithNull("Invalid page ID: " \o args.page_id)
        /\ calls = <<>>

\* C13 as amended: the same, except that patch_page called with no field to
\* update answers 'No fields provided for update' whatever the page_id is;
\* in every case no exception leaves the tool and no collaborator call is
\* made.
C13_InvalidPageIdOrNoFields ==
    InvalidPageId =>
        /\ calls = <<>>
        /\ IF PatchWithoutFields
           THEN FailureWithNull("No fields provided for update")
           ELSE FailureWithNull("Invalid page ID: " \o args.page_id)

\* update_page was called with page_id 'abc' and answered 'Invalid page ID:
\* abc' without calling the collaborator.
C13_Witness ==
    /\ InvalidPageId
    /\ invocation.tool = "update_page"
    /\ args.page_id = "abc"
    /\ calls = <<>>
    /\ FailureWithNull("Invalid page ID: abc")

----------------------------------------------------------------------------
(* Claims about the resources *)

\* A resource builder ran and returned text.
ResourceAnswered ==
    /\ response # Pending
    /\ response.fn \in {"resource_json", "resource_error"}
    /\ ~IsRaised(response.out)

----------------------------------------------------------------------------
(* Claims about the registered tools *)

\* The registered tools that create, update, patch or delete by their name.
WriteOperations ==
    {WriteTools[i] : i \in 1..Len(WriteTools)}
    \cup {"create_heartbeat", "update_heartbeat", "delete_heartbeat"}

\* C15 as stated: once a read-only server has started, no create, update,
\* patch or delete tool is registered; once a read-write server has started,
\* the registered tools are those of the read-only server plus the write
\* tools.
C15_WriteToolsOnlyInReadWrite ==
    server.pc = Started =>
        /\ server.mode = "read_only" => server.registered \cap WriteOperations = {}
        /\ server.mode = "read_write" =>
               {WriteTools[i] : i \in 1..Len(WriteTools)} \subseteq server.registered

----------------------------------------------------------------------------
(* Claims about invocations in flight at once *)

----------------------------------------------------------------------------
(* Claims about the API client contexts *)

OpDone(i) == sdk.ops[i].pc = "done"

\* C17: every operation that has returned, or raised, opened a context, that
\* context is closed by then, and no other operation ever used it.
C17_FreshContextPerOperation ==
    "ops" \in DOMAIN sdk =>
        \A i \in DOMAIN sdk.ops :
            OpDone(i) =>
                /\ sdk.ops[i].ctx # 0
                /\ ~sdk.contexts[sdk.ops[i].ctx].open
                /\ sdk.contexts[sdk.ops[i].ctx].users = {i}

----------------------------------------------------------------------------
(* Claims about list_component_groups *)

\* The collaborator returned a list of n component groups, each a model
\* with a dict() method.
GroupsReturned ==
    /\ Finished
    /\ invocation.tool = "list_component_groups"
    /\ ~IsRaised(world)
    /\ world.t = "list"
    /\ \A i \in 1..Len(world.l) : ~IsRaised(CallMethod(world.l[i], "dict"))

\* C18: when the collaborator returns n component groups, list_component_groups
\* returns a Success envelope whose data is the sequence of those n groups in
\* the collaborator's order: data has length n and data[i].name is the name
\* of group i.
C18_DataIsTheGroupSequence ==
    GroupsReturned =>
        /\ ~IsRaised(ret)
        /\ IsEnvelope(ret)
        /\ ret.m["success"] = JBool(TRUE)
        /\ ret.m["data"].j = "array"
        /\ Len(ret.m["data"].a) = Len(world.l)
        /\ \A i \in 1..Len(world.l) :
              ret.m["data"].a[i].m["name"] =
                  JsonDumps(CallMethod(world.l[i], "dict").d["name"], TRUE)

----------------------------------------------------------------------------
(* Claims about delete_page and delete_component *)

\* A delete tool has made its collaborator call and the invocation is over.
DeleteCalled ==
    /\ Finished
    /\ invocation.tool \in {"delete_page", "delete_component"}
    /\ calls # <<>>

\* The success text of the delete tools.
DeletedMessage ==
    IF invocation.tool = "delete_page"
    THEN "Page " \o args.page_id \o " deleted successfully"
    ELSE "Component " \o args.component_id \o " deleted successfully"

FailedToDelete ==
    IF invocation.tool = "delete_page" THEN "Failed to delete page"
    ELSE "Failed to delete component"

\* C19: a delete tool answers success = true with the message
\* '<Component|Page> <id> deleted successfully' exactly when the collaborator's
\* delete call returned a true value; when it returned a false value the
\* answer is the Failure envelope 'Failed to delete component' ('Failed to
\* delete page'); when it raised, the answer is a Failure envelope carrying
\* the exception text.
C19_DeleteOutcomes ==
    DeleteCalled =>
        IF IsRaised(world)
        THEN ~IsRaised(ret) /\ IsFailureOf(ret, world.e.msg)
        ELSE IF Truthy(world)
        THEN /\ ~IsRaised(ret)
             /\ ret.m["success"] = JBool(TRUE)
             /\ ret.m["message"] = JString(DeletedMessage)
        ELSE ~IsRaised(ret) /\ IsFailureOf(ret, FailedToDelete)

----------------------------------------------------------------------------
(* Claims about list_pages *)

\* list_pages has made its collaborator call.
PagesListed ==
    /\ Finished
    /\ invocation.tool = "list_pages"

\* C20: list_pages makes one collaborator call and never asks it for more
\* than 100 items per page: a per_page argument above 100 reaches the
\* collaborator as 100, a per_page that is null or at most 100 reaches it
\* unchanged.
C20_PerPageAtMost100 ==
    PagesListed =>
        /\ Len(calls) = 1
        /\ calls[1].method = "get_pages"
        /\ args.per_page # PyNone /\ args.per_page.n > 100 =>
              calls[1].args.per_page = PyInt(100)
        /\ args.per_page = PyNone \/ args.per_page.n <= 100 =>
              calls[1].args.per_page = args.per_page
        /\ calls[1].args.per_page # PyNone => calls[1].args.per_page.n <= 100

\* list_pages was asked for 101 items per page and asked the collaborator
\* for 100.
C20_Witness ==
    /\ PagesListed
    /\ args.per_page = PyInt(101)
    /\ calls[1].args.per_page = PyInt(100)
    /\ ~IsRaised(ret)
    /\ ret.m["success"] = JBool(TRUE)

----------------------------------------------------------------------------
(* Claims about pagination parameters *)

RequestSent == ret = Requested /\ invocation.tool \in ListOperations

\* given reaches the request under the name key: a null value is not sent,
\* any other value is sent as it is.
ForwardedAsGiven(given, key) ==
    IF given = PyNone
    THEN key \notin DOMAIN calls[1].args \/ calls[1].args[key] = PyNone
    ELSE key \in DOMAIN calls[1].args /\ calls[1].args[key] = given

\* C21 as stated: for every list operation the page and per_page/page_size
\* values that reach the external API call equal the values the caller
\* passed, none substituted, defaulted or dropped.
C21_PaginationForwardedAsGiven ==
    RequestSent =>
        /\ ForwardedAsGiven(args.page, "page")
        /\ ForwardedAsGiven(args.per_page, "page_size")

\* What the pages endpoint sends for a value: the default in place of a
\* falsy one.
PagesEndpointSends(given, key, default) ==
    calls[1].args[key] = IF given \in {PyNone, PyInt(0)} THEN default ELSE given

\* C21 as amended: list_checks and list_heartbeats send page and page_size
\* as given and send no parameter for a null one; the pages endpoint sends
\* page 1 for a null or zero page and page_size 20 for a null or zero
\* per_page, and any other value as given; list_pages first replaces a
\* per_page above 100 by 100.
C21_PaginationForwardedOrDefaulted ==
    RequestSent =>
        CASE invocation.tool \in {"list_checks", "list_heartbeats"} ->
                /\ ForwardedAsGiven(args.page, "page")
                /\ ForwardedAsGiven(args.per_page, "page_size")
          [] invocation.tool = "pages.list" ->
                /\ PagesEndpointSends(args.page, "page", PyInt(1))
                /\ PagesEndpointSends(args.per_page, "page_size", PyInt(20))
          [] OTHER ->
                /\ PagesEndpointSends(args.page, "page", PyInt(1))
                /\ PagesEndpointSends(
                       IF args.per_page # PyNone /\ args.per_page.n > 100
                       THEN PyInt(100) ELSE args.per_page,
                       "page_size", PyInt(20))

\* list_pages was called without a page and with per_page = 0, and the API
\* was asked for page 1 with 20 items.
C21_Witness ==
    /\ RequestSent
    /\ invocation.tool = "list_pages"
    /\ args.page = PyNone
    /\ args.per_page = PyInt(0)
    /\ calls[1] = Call("v1_pages_get", [page |-> PyInt(1), page_size |-> PyInt(20)])

----------------------------------------------------------------------------
(* Claims about the order of the strategies *)

\* The Normalizer has run the strategies on an object and returned.
ObjectConverted == Returned /\ obj.t = "obj"

\* What the first strategy with a non-empty yield gives for o, the
\* strategies taken in their order, each on an empty result.
FirstNonEmpty(o) ==
    IF Strategy1(o, EmptyMap) # EmptyMap THEN Strategy1(o, EmptyMap)
    ELSE IF Strategy2(o, EmptyMap) # EmptyMap THEN Strategy2(o, EmptyMap)
    ELSE IF Strategy3(o, EmptyMap) # EmptyMap THEN Strategy3(o, EmptyMap)
    ELSE Strategy5(o, Strategy4(o, EmptyMap))

\* C22: the strategies are tried in the order to_dict, attribute_map,
\* instance attributes, introspection, and the result is what the first one
\* with a non-empty yield gave: no later strategy runs or adds a key.
C22_StopsAtFirstNonEmpty ==
    (ObjectConverted /\ FirstNonEmpty(obj) # EmptyMap) =>
        converted = PyDict(FirstNonEmpty(obj))

----------------------------------------------------------------------------
(* Claims about conflicting keys *)

\* The result dictionary after strategy n has run on o, n in 1..5.
ResultAfter(o, n) ==
    LET r1 == Strategy1(o, EmptyMap)
        r2 == Strategy2(o, r1)
        r3 == Strategy3(o, r2)
        r4 == Strategy4(o, r3)
    IN  CASE n = 1 -> r1
          [] n = 2 -> r2
          [] n = 3 -> r3
          [] n = 4 -> r4
          [] OTHER -> Strategy5(o, r4)

\* The strategies extracted something from the object, so the result is
\* their dictionary.
Extracted == ObjectConverted /\ converted = PyDict(ResultAfter(obj, 5))

\* C23: a key that is in the result after one strategy has, in the returned
\* mapping, the value it had then: no later strategy changes it, and the
\* introspection strategies add unseen keys only.
C23_FirstWriterWins ==
    Extracted =>
        \A n \in 1..4 :
            \A k \in DOMAIN ResultAfter(obj, n) :
                converted.d[k] = ResultAfter(obj, n)[k]

----------------------------------------------------------------------------
(* Claims about the identifier back-fill *)

\* The attributes the back-fill is said to scan, in its order.
WellKnownIdentifiers ==
    <<"id", "page_id", "organization_id", "check_id", "component_id", "uuid", "pk">>

\* The places in WellKnownIdentifiers of the attributes o has with a value.
IdentifiersOf(o) ==
    {i \in 1..Len(WellKnownIdentifiers) :
        /\ HasAttr(o, WellKnownIdentifiers[i])
        /\ GetAttr(o, WellKnownIdentifiers[i]) # PyNone}

FirstIdentifierOf(o) ==
    WellKnownIdentifiers[CHOOSE i \in IdentifiersOf(o) :
                            \A j \in IdentifiersOf(o) : i <= j]

HasIdKey(res) == \E k \in DOMAIN res : IdBearing(k)

\* C24: when the strategies leave the result without an identifier-like key,
\* the first of id, page_id, organization_id, check_id, component_id, uuid,
\* pk that the object has with a non-null value is added to the result; when
\* the result has such a key, the result of the strategies is returned as it
\* is.
C24_IdentifierBackFill ==
    ObjectConverted =>
        IF HasIdKey(ResultAfter(obj, 5))
        THEN converted = PyDict(ResultAfter(obj, 5))
        ELSE IdentifiersOf(obj) # {} =>
                /\ FirstIdentifierOf(obj) \in DOMAIN converted.d
                /\ converted.d[FirstIdentifierOf(obj)] =
                       NormalizeValue(GetAttr(obj, FirstIdentifierOf(obj)))

----------------------------------------------------------------------------
(* Claims about patch_page and patch_component *)

PatchFinished ==
    /\ Finished
    /\ invocation.tool \in {"patch_page", "patch_component"}

\* The payload of a patch call made to the collaborator.
PatchPayload(call) ==
    IF call.method = "pages.patch" THEN call.args.page_data
    ELSE call.args.component_data

\* C25: a patch with no field to update is answered with the Failure envelope
\* 'No fields provided for update' and data null, without a call to the
\* collaborator, in patch_page also when the page_id is malformed; a patch
\* with fields that reaches the collaborator carries exactly those fields,
\* and it reaches it once unless the page_id of patch_page is malformed.
C25_EmptyPatchRejected ==
    PatchFinished =>
        IF args.kwargs = EmptyMap
        THEN /\ calls = <<>>
             /\ FailureWithNull("No fields provided for update")
        ELSE /\ \A i \in 1..Len(calls) : PatchPayload(calls[i]) = args.kwargs
             /\ Len(calls) =
                   IF invocation.tool = "patch_page" /\ IsRaised(IntOf(args.page_id))
                   THEN 0 ELSE 1

\* patch_page ran with a malformed page_id and no fields and reported the
\* missing fields.
C25_Witness ==
    /\ PatchFinished
    /\ invocation.tool = "patch_page"
    /\ IsRaised(IntOf(args.page_id))
    /\ args.kwargs = EmptyMap
    /\ calls = <<>>
    /\ IsFailureOf(ret, "No fields provided for update")

----------------------------------------------------------------------------
(* Claims about the arguments of list_component_groups *)

ComponentGroupsRequested ==
    ret = Requested /\ invocation.tool \in ComponentGroupOperations

\* The request that reaches the external API: the last call made.
ApiRequest == calls[Len(calls)]

\* The query parameters of the request: the keyword arguments of the SDK's
\* API method besides the page id, or the params of the HTTP request.
QueryOf(request) ==
    IF request.method = "_request" THEN request.args.params
    ELSE [k \in DOMAIN request.args \ {"page_id"} |-> request.args[k]]

\* C26: list_component_groups calls the collaborator once with the same
\* page_id and the same show_deleted flag, and the request to the external
\* API carries show_deleted = true when the flag is true and no show_deleted
\* parameter when it is false.
C26_ShowDeletedForwarded ==
    ComponentGroupsRequested =>
        /\ invocation.tool = "list_component_groups" =>
              /\ Len(calls) = 2
              /\ calls[1] = Call("components.get_component_groups",
                                 [page_id |-> args.page_id,
                                  show_deleted |-> args.show_deleted])
        /\ IF args.show_deleted
           THEN /\ "show_deleted" \in DOMAIN QueryOf(ApiRequest)
                /\ QueryOf(ApiRequest)["show_deleted"] = TRUE
           ELSE "show_deleted" \notin DOMAIN QueryOf(ApiRequest)

----------------------------------------------------------------------------
(* Claims about find_pages_with_latest_incidents *)

FindPagesFinished ==
    Finished /\ invocation.tool = "find_pages_with_latest_incidents"

\* The pages the collaborator listed, as list_pages renders them.
PagesListedBy(w) == DictOfEach(Getattr(w, "pages"))

\* The page listing succeeded with at least one page.
ListingSucceeded ==
    /\ FindPagesFinished
    /\ ~IsRaised(world)
    /\ ~IsRaised(PagesListedBy(world))
    /\ PagesListedBy(world).l # <<>>

HasNonEmptyId(page) == "id" \in DOMAIN page.d /\ Truthy(page.d["id"])

\* The listed pages that have a non-empty id, in listing order.
IdentifiedPages == SelectSeq(PagesListedBy(world).l, HasNonEmptyId)

\* The entries of the answer.
Entries == ret.m["data"].m["pages_with_incidents"].a

\* C27: when the listing succeeds with a non-empty list, the answer is a
\* success with exactly one entry per listed page that has a non-empty id, in
\* listing order, and total_pages is the number of entries; a page whose
\* incidents request raised has an error entry, and the pages after it have
\* their entries all the same.
C27_OneEntryPerPage ==
    ListingSucceeded =>
        /\ ~IsRaised(ret)
        /\ ret.m["success"] = JBool(TRUE)
        /\ Len(Entries) = Len(IdentifiedPages)
        /\ ret.m["data"].m["total_pages"] = [j |-> "number", n |-> Len(Entries)]
        /\ \A i \in 1..Len(IdentifiedPages) :
              LET id == IdentifiedPages[i].d["id"].s
              IN  /\ Entries[i].m["page_id"] = JString(id)
                  /\ Entries[i].m["page_name"] =
                         JsonDumps(IdentifiedPages[i].d["name"], FALSE)
                  /\ IF IsRaised(args.incidents[id])
                     THEN /\ DOMAIN Entries[i].m = {"page_id", "page_name", "error"}
                          /\ Entries[i].m["error"] =
                                 JString("Could not fetch incidents: "
                                         \o args.incidents[id].e.msg)
                     ELSE "error" \in DOMAIN Entries[i].m
                              \/ "latest_incident" \in DOMAIN Entries[i].m
        /\ Len(calls) = 1 + Len(IdentifiedPages)

\* Two pages were listed, the incidents request for the first raised and the
\* second page has its latest incident.
C27_Witness ==
    /\ ListingSucceeded
    /\ Len(PagesListedBy(world).l) = 2
    /\ ~IsRaised(ret)
    /\ Len(Entries) = 2
    /\ IsRaised(args.incidents["1"])
    /\ Entries[1].m["page_id"] = JString("1")
    /\ "error" \in DOMAIN Entries[1].m
    /\ Entries[2].m["page_id"] = JString("2")
    /\ "latest_incident" \in DOMAIN Entries[2].m
    /\ Entries[2].m["latest_incident"].j = "object"
    /\ Entries[2].m["latest_incident"].m["id"] = JString("i1")

\* What pages_tools.list_pages() gave the tool: a text, or an exception.
PagesResult == list_pages(PyNone, PyNone, PyNone, world).ret

\* The listing is a Failure envelope, or a success that lists no page.
NothingListed ==
    /\ ~IsRaised(PagesResult)
    /\ \/ PagesResult.m["success"] = JBool(FALSE)
       \/ /\ PagesResult.m["data"].j = "object"
          /\ "pages" \in DOMAIN PagesResult.m["data"].m
          /\ PagesResult.m["data"].m["pages"] = [j |-> "array", a |-> <<>>]

\* C28: when the page listing fails or lists no pages, the tool returns the
\* text of list_pages as it is and asks for no incidents; an exception raised
\* outside the handling of one page comes back as a Failure envelope with
\* data null; the tool never raises.
C28_ListingReturnedUnchanged ==
    FindPagesFinished =>
        /\ ~IsRaised(ret)
        /\ NothingListed => ret = PagesResult /\ Len(calls) = 1
        /\ IsRaised(PagesResult) =>
              /\ Len(calls) = 1
              /\ JsonLoads(ret) =
                     Dict3("success", PyBool(FALSE),
                           "error", PyStr("Error finding pages and incidents: "
                                          \o PagesResult.e.msg),
                           "data", PyNone)

\* list_pages failed with its Failure envelope and the tool returned that
\* text, the only call made being the page listing.
C28_Witness ==
    /\ FindPagesFinished
    /\ world = Raised(Exc("PingeraAPIError", "API Error"))
    /\ ret = PagesResult
    /\ IsFailureOf(ret, "API Error")
    /\ Len(calls) = 1
    /\ calls[1].method = "get_pages"

----------------------------------------------------------------------------
(* Claims about failures of the external API *)

\* The exception class _handle_api_exception is said to choose for a status.
ClassForStatus(status) ==
    IF status = 401 THEN "PingeraAuthError"
    ELSE IF status = 408 THEN "PingeraTimeoutError"
    ELSE IF status >= 500 THEN "PingeraConnectionError"
    ELSE "PingeraAPIError"

\* C29: _handle_api_exception never returns: for every status it raises the
\* authentication error for 401, the timeout error for 408, the connection
\* error for 500 and above and the API error otherwise; _make_request raises
\* for every response status of 400 and above and returns the response only
\* below 400; an SDK endpoint method whose API call failed raises and never
\* returns null.
C29_FailuresAreRaised ==
    Finished =>
        CASE invocation.tool = "_handle_api_exception" ->
                /\ IsRaised(ret)
                /\ ret.e.cls = ClassForStatus(world.e.status)
          [] invocation.tool = "sdk_endpoint" ->
                IsRaised(world) =>
                    /\ ret # PyNone
                    /\ IsRaised(ret)
                    /\ world.e.cls = "ApiException" =>
                          ret.e.cls = ClassForStatus(world.e.status)
          [] invocation.tool = "_make_request" ->
                IF args.transport # "none" \/ world.status_code >= 400
                THEN IsRaised(ret)
                ELSE ret = world
          [] OTHER -> TRUE

\* PagesEndpointSDK.delete met a 503 and raised the connection error built by
\* _handle_api_exception.
C29_Witness ==
    /\ Finished
    /\ invocation.tool = "sdk_endpoint"
    /\ args.op = "pages.delete"
    /\ world = ApiException(502, "Not Found")
    /\ ret = Raised(Exc("PingeraConnectionError", "Server error: Not Found"))

----------------------------------------------------------------------------
(* Claims about get_component *)

\* The components of the listing world, empty when it has no data.
ListedComponents ==
    IF ~IsRaised(world) /\ HasAttr(world, "data") /\ GetAttr(world, "data").t = "list"
    THEN GetAttr(world, "data").l
    ELSE <<>>

\* The positions of the listing whose component has the requested id.
MatchingPositions ==
    {i \in 1..Len(ListedComponents) :
        GetAttr(ListedComponents[i], "id") = PyStr(args.component_id)}

ComponentLookedUp ==
    /\ Finished
    /\ invocation.tool \in {"components.get_component", "get_component_details"}
    /\ ~IsRaised(world)

\* C30: get_component of the SDK client returns the first component of the
\* page's listing whose id is the requested one; when none matches or the
\* listing has no data it raises the API error 'Component <component_id> not
\* found', which get_component_details returns as the Failure envelope with
\* data null, never as a Success envelope.
C30_FirstMatchOrNotFound ==
    ComponentLookedUp =>
        IF invocation.tool = "components.get_component"
        THEN IF MatchingPositions = {}
             THEN ret = Raised(Exc("PingeraAPIError",
                                   "Component " \o args.component_id \o " not found"))
             ELSE \E i \in MatchingPositions :
                     /\ \A j \in MatchingPositions : i <= j
                     /\ ret = ListedComponents[i]
        ELSE IF MatchingPositions = {}
             THEN FailureWithNull("Component " \o args.component_id \o " not found")
             ELSE \E i \in MatchingPositions :
                     /\ \A j \in MatchingPositions : i <= j
                     /\ ~IsRaised(ret)
                     /\ JsonLoads(ret) =
                            Dict2("success", PyBool(TRUE),
                                  "data", ListedComponents[i].td.v)

\* Two listed components share the id c1 and the first of them, API, was
\* returned.
C30_Witness ==
    /\ ComponentLookedUp
    /\ invocation.tool = "components.get_component"
    /\ args.component_id = "c1"
    /\ world = ComponentsResponse(PyList(<<ComponentModel("c1", "API"),
                                          ComponentModel("c1", "API copy")>>))
    /\ ret = ComponentModel("c1", "API")

=============================================================================
